---- MODULE Spec2Model ----
(***************************************************************************)
(* A model of rockmore-git's GitFS (src/src/gitfs.rs, src/src/lib.rs):     *)
(* the inode registry (InoMap), the four-variant Entry model, the          *)
(* directory materializer (do_opendir / walk_dir / walk_tree), the         *)
(* blob-to-file promoter, the DirtyFile handle lifecycle and the FUSE      *)
(* handlers.  The Git repository is a fixed object store; the underlying   *)
(* directory is a tree of paths over a store of files.  Handlers run one   *)
(* at a time (fuser's session loop is single-threaded), so every handler   *)
(* is one atomic action.                                                   *)
(***************************************************************************)
EXTENDS Integers, Sequences, FiniteSets, TLC

VARIABLES
    inomap,          \* GitFS.inomap : [next_ino, inner]
    underlying_dir,  \* GitFS.underlying_dir : [tree, files, next_fid]
    opens,           \* the kernel's table of outstanding opens, per inode
    reply,           \* what the last handler did with its reply object
    panicked,        \* the process died in unreachable!() / unwrap()
    steps,           \* the number of requests served so far
    dirstream,       \* the kernel's directory stream: what readdir gave it so far
    removed          \* the <<parent, name>> the kernel removed and has not made since

vars == <<inomap, underlying_dir, opens, reply, panicked, steps, dirstream, removed>>

----------------------------------------------------------------------------
(* Bounds of the model.                                                     *)

\* a session serves at most MaxSteps requests
MaxSteps == 6
\* the registry hands out inode numbers 1..MaxIno
MaxIno == 6
\* the underlying directory creates files 1..MaxFid
MaxFid == 3
\* refcnt of a DirtyFile is explored up to MaxRefcnt
MaxRefcnt == 2
\* the kernel keeps at most MaxOpens opens of one inode outstanding
MaxOpens == 2

----------------------------------------------------------------------------
(* Option<T>: None is the empty set, Some(x) the singleton.                 *)

None == {}

Some(x) == {x}

IsSome(o) == o # {}

Unwrap(o) == CHOOSE x \in o : TRUE

EmptyMap == [n \in {} |-> 0]

\* HashMap::insert
MapInsert(m, k, v) == [n \in DOMAIN m \cup {k} |-> IF n = k THEN v ELSE m[n]]

\* HashMap::remove
MapRemove(m, k) == [n \in DOMAIN m \ {k} |-> m[n]]

Max(a, b) == IF a >= b THEN a ELSE b

Min(a, b) == IF a <= b THEN a ELSE b

----------------------------------------------------------------------------
(* errno values (libc) and open flags.                                      *)

ENOENT == "ENOENT"

EIO == "EIO"

ENOTDIR == "ENOTDIR"

EISDIR == "EISDIR"

EEXIST == "EEXIST"

ENOTEMPTY == "ENOTEMPTY"

EINVAL == "EINVAL"

EBADF == "EBADF"

O_RDONLY == 0

O_WRONLY == 1

O_RDWR == 2

OpenFlags == {O_RDONLY, O_WRONLY, O_RDWR}

\* the test of the access mode as it would be if no flags were read-only
IsReadOnlyFlagsNever(flags) == FALSE

\* open()'s guard `flags & !O_RDONLY == 0`: !O_RDONLY is all ones, so the
\* mask keeps every bit of flags and the test is flags == 0.
IsReadOnlyFlags(flags) == flags = 0

\* Ino::ROOT
ROOT == 1

\* file modes: S_IFREG|0644, S_IFDIR|0755, and the 0755 walk_tree gives a tree
ModeFile == 33188

ModeDir == 16877

ModeTree == 493

----------------------------------------------------------------------------
(* The Git repository: HEAD's tree T0 = { a : blob B1, s : tree T1 } and    *)
(* T1 = { b : blob B2, m : commit (a submodule link) }.                     *)

RootTree == "T0"

GitTrees ==
    [T0 |-> { [name |-> "a", kind |-> "Blob", id |-> "B1", filemode |-> ModeFile],
              [name |-> "s", kind |-> "Tree", id |-> "T1", filemode |-> 16384] },
     T1 |-> { [name |-> "b", kind |-> "Blob", id |-> "B2", filemode |-> ModeFile],
              [name |-> "m", kind |-> "Commit", id |-> "K1", filemode |-> 57344] }]

GitBlobs == [B1 |-> <<1, 2>>, B2 |-> <<3, 4>>]

----------------------------------------------------------------------------
(* Entry and EntryKind (lib.rs).                                            *)

GitTree(oid, children) ==
    [kind |-> "GitTree", oid |-> oid, children |-> children, refcnt |-> 0, file |-> None]

GitBlob(oid) ==
    [kind |-> "GitBlob", oid |-> oid, children |-> None, refcnt |-> 0, file |-> None]

DirtyDir(children) ==
    [kind |-> "DirtyDir", oid |-> "", children |-> children, refcnt |-> 0, file |-> None]

DirtyFile(refcnt, file) ==
    [kind |-> "DirtyFile", oid |-> "", children |-> None, refcnt |-> refcnt, file |-> file]

Entry(name, parent, perm, size, u) ==
    [name |-> name, parent |-> parent, perm |-> perm, size |-> size, u |-> u]

IsDirectory(e) == e.u.kind \in {"GitTree", "DirtyDir"}

IsFile(e) == e.u.kind \in {"GitBlob", "DirtyFile"}

\* impl From<&Entry> for FileType
FileType(e) == IF IsDirectory(e) THEN "Directory" ELSE "RegularFile"

----------------------------------------------------------------------------
(* InoMap (lib.rs).                                                         *)

InoMapNew == [next_ino |-> ROOT, inner |-> EmptyMap]

\* add as it would be if it gave out the lowest number without an entry
InoMapAddLowestFree(m, entry) ==
    LET ino == CHOOSE i \in 1..m.next_ino :
                   /\ i \notin DOMAIN m.inner
                   /\ \A k \in 1..(i - 1) : k \in DOMAIN m.inner
    IN  [next_ino |-> Max(m.next_ino, ino + 1), inner |-> MapInsert(m.inner, ino, entry)]

InoMapAdd(m, entry) ==
    [next_ino |-> m.next_ino + 1, inner |-> MapInsert(m.inner, m.next_ino, entry)]

InoMapGet(m, ino) == IF ino \in DOMAIN m.inner THEN Some(m.inner[ino]) ELSE None

InoMapRemove(m, ino) == [m EXCEPT !.inner = MapRemove(m.inner, ino)]

\* InoMap::get_mut followed by an assignment to the entry
InoMapSet(m, ino, entry) == [m EXCEPT !.inner[ino] = entry]

RECURSIVE PrefixParts(_, _)
\* the while loop of InoMap::prefix: the names from ino up to the root,
\* innermost first; None when an inode on the way is not registered
PrefixParts(m, ino) ==
    IF ino = ROOT THEN Some(<<>>)
    ELSE IF ino \notin DOMAIN m.inner THEN None
    ELSE LET rest == PrefixParts(m, m.inner[ino].parent)
         IN  IF rest = None THEN None
             ELSE Some(<<m.inner[ino].name>> \o Unwrap(rest))

RECURSIVE Reverse(_)
Reverse(s) == IF s = <<>> THEN <<>> ELSE Reverse(Tail(s)) \o <<Head(s)>>

\* InoMap::prefix
prefix(m, ino) ==
    LET parts == PrefixParts(m, ino)
    IN  IF parts = None THEN None ELSE Some(Reverse(Unwrap(parts)))

----------------------------------------------------------------------------
(* The underlying directory (openat::Dir): tree maps a path (a sequence of  *)
(* names, <<>> being the directory itself) to [type, fid, mode]; files maps *)
(* a file id to its bytes.  An open handle names the file id, so it follows *)
(* the file through renames and survives its unlinking, as a descriptor     *)
(* does.                                                                    *)

S_IFREG == 32768

S_IFDIR == 16384

\* st_size of a directory
DirStatSize == 4096

ParentPath(p) == SubSeq(p, 1, Len(p) - 1)

LastName(p) == p[Len(p)]

IsPrefixOf(p, q) == Len(p) <= Len(q) /\ SubSeq(q, 1, Len(p)) = p

IsDirAt(d, p) == p \in DOMAIN d.tree /\ d.tree[p].type = "dir"

DirNode(mode) == [type |-> "dir", fid |-> 0, mode |-> S_IFDIR + (mode % 4096)]

FileNode(fid, mode) == [type |-> "file", fid |-> fid, mode |-> S_IFREG + (mode % 4096)]

\* the errno of resolving the directory that holds p ("" when it resolves)
ParentErr(d, p) ==
    IF p = <<>> THEN ENOENT
    ELSE IF \E k \in 0..(Len(p) - 1) :
                /\ SubSeq(p, 1, k) \in DOMAIN d.tree
                /\ d.tree[SubSeq(p, 1, k)].type # "dir"
         THEN ENOTDIR
    ELSE IF ParentPath(p) \notin DOMAIN d.tree THEN ENOENT
    ELSE ""

IoErr(d, e) == [ok |-> FALSE, err |-> e, dir |-> d, fid |-> 0]

IoOk(d, fid) == [ok |-> TRUE, err |-> "", dir |-> d, fid |-> fid]

\* openat(O_CREAT | O_RDWR or O_WRONLY [| O_TRUNC]); io is an external failure
OpenFile(d, p, mode, trunc, io) ==
    IF io THEN IoErr(d, EIO)
    ELSE IF ParentErr(d, p) # "" THEN IoErr(d, ParentErr(d, p))
    ELSE IF p \in DOMAIN d.tree
         THEN IF d.tree[p].type = "dir" THEN IoErr(d, EISDIR)
              ELSE IF d.tree[p].type # "file" THEN IoErr(d, "ENXIO")
              ELSE IF trunc
                   THEN IoOk([d EXCEPT !.files[d.tree[p].fid] = <<>>], d.tree[p].fid)
                   ELSE IoOk(d, d.tree[p].fid)
    ELSE IoOk([tree     |-> MapInsert(d.tree, p, FileNode(d.next_fid, mode)),
               files    |-> MapInsert(d.files, d.next_fid, <<>>),
               next_fid |-> d.next_fid + 1],
              d.next_fid)

\* Dir::write_file: O_CREAT | O_WRONLY | O_TRUNC
write_file(d, p, mode, io) == OpenFile(d, p, mode, TRUE, io)

\* Dir::update_file: O_CREAT | O_RDWR
update_file(d, p, mode, io) == OpenFile(d, p, mode, FALSE, io)

\* Dir::create_dir: mkdirat
create_dir(d, p, mode, io) ==
    IF io THEN IoErr(d, EIO)
    ELSE IF p = <<>> THEN IoErr(d, EEXIST)
    ELSE IF ParentErr(d, p) # "" THEN IoErr(d, ParentErr(d, p))
    ELSE IF p \in DOMAIN d.tree THEN IoErr(d, EEXIST)
    ELSE IoOk([d EXCEPT !.tree = MapInsert(d.tree, p, DirNode(mode))], 0)

\* Dir::remove_file: unlinkat
remove_file(d, p, io) ==
    IF io THEN IoErr(d, EIO)
    ELSE IF ParentErr(d, p) # "" THEN IoErr(d, ParentErr(d, p))
    ELSE IF p \notin DOMAIN d.tree THEN IoErr(d, ENOENT)
    ELSE IF d.tree[p].type = "dir" THEN IoErr(d, EISDIR)
    ELSE IoOk([d EXCEPT !.tree = MapRemove(d.tree, p)], 0)

\* Dir::remove_dir: unlinkat(AT_REMOVEDIR)
remove_dir(d, p, io) ==
    IF io THEN IoErr(d, EIO)
    ELSE IF ParentErr(d, p) # "" THEN IoErr(d, ParentErr(d, p))
    ELSE IF p \notin DOMAIN d.tree THEN IoErr(d, ENOENT)
    ELSE IF d.tree[p].type # "dir" THEN IoErr(d, ENOTDIR)
    ELSE IF \E q \in DOMAIN d.tree : q # p /\ IsPrefixOf(p, q) THEN IoErr(d, ENOTEMPTY)
    ELSE IoOk([d EXCEPT !.tree = MapRemove(d.tree, p)], 0)

\* the tree after old (with everything below it) moved to new
MovedTree(t, old, new) ==
    LET kept   == {q \in DOMAIN t : ~IsPrefixOf(old, q) /\ q # new}
        moved  == {q \in DOMAIN t : IsPrefixOf(old, q)}
        dst(q) == new \o SubSeq(q, Len(old) + 1, Len(q))
    IN  [r \in kept \cup {dst(q) : q \in moved} |->
            IF \E q \in moved : dst(q) = r
            THEN t[CHOOSE q \in moved : dst(q) = r]
            ELSE t[r]]

\* Dir::local_rename: renameat
local_rename(d, old, new, io) ==
    IF io THEN IoErr(d, EIO)
    ELSE IF ParentErr(d, old) # "" THEN IoErr(d, ParentErr(d, old))
    ELSE IF old \notin DOMAIN d.tree THEN IoErr(d, ENOENT)
    ELSE IF ParentErr(d, new) # "" THEN IoErr(d, ParentErr(d, new))
    ELSE IF old = new THEN IoOk(d, 0)
    ELSE IF d.tree[old].type = "dir" /\ IsPrefixOf(old, new) THEN IoErr(d, EINVAL)
    ELSE IF new \in DOMAIN d.tree /\ d.tree[old].type = "dir" /\ d.tree[new].type # "dir"
         THEN IoErr(d, ENOTDIR)
    ELSE IF new \in DOMAIN d.tree /\ d.tree[old].type # "dir" /\ d.tree[new].type = "dir"
         THEN IoErr(d, EISDIR)
    ELSE IF \E q \in DOMAIN d.tree : q # new /\ IsPrefixOf(new, q)
         THEN IoErr(d, ENOTEMPTY)
    ELSE IoOk([d EXCEPT !.tree = MovedTree(d.tree, old, new)], 0)

\* Dir::list_self / Dir::list_dir: the names in directory p, None on error
list_dir(d, p, io) ==
    IF io \/ ~IsDirAt(d, p) THEN None
    ELSE Some({LastName(q) : q \in {r \in DOMAIN d.tree : r # <<>> /\ ParentPath(r) = p}})

\* Dir::metadata(path).stat(): st_mode and st_size
StatMode(d, p) == d.tree[p].mode

StatSize(d, p) ==
    IF d.tree[p].type = "file" THEN Len(d.files[d.tree[p].fid])
    ELSE IF d.tree[p].type = "dir" THEN DirStatSize
    ELSE 0

\* DirEntry::simple_type
simple_type(d, p) ==
    IF d.tree[p].type = "dir" THEN "Dir"
    ELSE IF d.tree[p].type = "file" THEN "File"
    ELSE "Other"

\* File: a descriptor [fid, mode] with mode "RW" (update_file) or "WO" (write_file)
File(fid, mode) == [fid |-> fid, mode |-> mode]

\* file.seek(SeekFrom::Start(offset)); file.write(data): bytes past the old
\* end are zero-filled
WriteAt(old, offset, data) ==
    [i \in 1..Max(Len(old), offset + Len(data)) |->
        IF i > offset /\ i <= offset + Len(data) THEN data[i - offset]
        ELSE IF i <= Len(old) THEN old[i]
        ELSE 0]

\* file.seek(SeekFrom::Start(offset)); file.read(&mut buf) with buf.len() = size
ReadAt(old, offset, size) ==
    IF offset >= Len(old) THEN <<>>
    ELSE SubSeq(old, offset + 1, Min(Len(old), offset + size))

----------------------------------------------------------------------------
(* The directory materializer: walk_tree, walk_dir, do_opendir.             *)

\* walk_tree as it would be if it took the submodule links (commit entries)
\* of the tree for directories
walk_tree_with_submodules(ino, tree_id, gitfail) ==
    IF gitfail THEN None
    ELSE LET usable == GitTrees[tree_id]
             byName(n) == CHOOSE te \in usable : te.name = n
         IN  Some([n \in {te.name : te \in usable} |->
                     IF byName(n).kind = "Blob"
                     THEN Entry(n, ino, byName(n).filemode,
                                Len(GitBlobs[byName(n).id]), GitBlob(byName(n).id))
                     ELSE Entry(n, ino, ModeTree, 0, GitTree(byName(n).id, None))])

\* GitFS::walk_tree: the Git children of tree_id, not yet registered; None
\* when the repository cannot read an object (gitfail)
walk_tree(ino, tree_id, gitfail) ==
    IF gitfail THEN None
    ELSE LET usable == {te \in GitTrees[tree_id] : te.kind \in {"Blob", "Tree"}}
             byName(n) == CHOOSE te \in usable : te.name = n
         IN  Some([n \in {te.name : te \in usable} |->
                     IF byName(n).kind = "Blob"
                     THEN Entry(n, ino, byName(n).filemode,
                                Len(GitBlobs[byName(n).id]), GitBlob(byName(n).id))
                     ELSE Entry(n, ino, ModeTree, 0, GitTree(byName(n).id, None))])

WalkOk(entries) == [res |-> "Ok", errno |-> "", entries |-> entries]

WalkErr(e) == [res |-> "Err", errno |-> e, entries |-> EmptyMap]

WalkPanic == [res |-> "Panic", errno |-> "", entries |-> EmptyMap]

\* walk_dir as it would be if a failed listing of the underlying directory
\* were an error for a GitTree as it is for a DirtyDir
walk_dir_listing_must_succeed(m, d, ino, tree_id, gitfail, iofail, bad) ==
    LET git == IF tree_id = None THEN Some(EmptyMap)
               ELSE walk_tree(ino, Unwrap(tree_id), gitfail)
        pfx == prefix(m, ino)
    IN  IF git = None THEN WalkErr(ENOENT)
        ELSE IF pfx = None THEN WalkPanic
        ELSE LET entries  == Unwrap(git)
                 path     == Unwrap(pfx)
                 dir_iter == list_dir(d, path, iofail)
             IN  IF dir_iter = None THEN WalkErr(EIO)
                 ELSE LET seen  == Unwrap(dir_iter) \ bad
                          ty(n) == simple_type(d, path \o <<n>>)
                          dirs  == {n \in seen : ty(n) = "Dir" /\ n \notin DOMAIN entries}
                          files == {n \in seen : ty(n) = "File"}
                      IN  WalkOk([n \in DOMAIN entries \cup dirs \cup files |->
                                IF n \in files
                                THEN Entry(n, ino, StatMode(d, path \o <<n>>),
                                           StatSize(d, path \o <<n>>), DirtyFile(0, None))
                                ELSE IF n \in dirs
                                THEN Entry(n, ino, StatMode(d, path \o <<n>>),
                                           StatSize(d, path \o <<n>>), DirtyDir(None))
                                ELSE entries[n]])

\* walk_dir as it would be if the Git view won for every known name: a
\* regular file is taken from the underlying directory only when the Git
\* tree has no entry of that name
walk_dir_git_wins(m, d, ino, tree_id, gitfail, iofail, bad) ==
    LET git == IF tree_id = None THEN Some(EmptyMap)
               ELSE walk_tree(ino, Unwrap(tree_id), gitfail)
        pfx == prefix(m, ino)
    IN  IF git = None THEN WalkErr(ENOENT)
        ELSE IF pfx = None THEN WalkPanic
        ELSE LET entries  == Unwrap(git)
                 path     == Unwrap(pfx)
                 dir_iter == list_dir(d, path, iofail)
             IN  IF dir_iter = None /\ tree_id # None THEN WalkOk(entries)
                 ELSE IF dir_iter = None THEN WalkErr(EIO)
                 ELSE LET seen  == Unwrap(dir_iter) \ bad
                          ty(n) == simple_type(d, path \o <<n>>)
                          dirs  == {n \in seen : ty(n) = "Dir" /\ n \notin DOMAIN entries}
                          files == {n \in seen : ty(n) = "File" /\ n \notin DOMAIN entries}
                      IN  WalkOk([n \in DOMAIN entries \cup dirs \cup files |->
                                IF n \in files
                                THEN Entry(n, ino, StatMode(d, path \o <<n>>),
                                           StatSize(d, path \o <<n>>), DirtyFile(0, None))
                                ELSE IF n \in dirs
                                THEN Entry(n, ino, StatMode(d, path \o <<n>>),
                                           StatSize(d, path \o <<n>>), DirtyDir(None))
                                ELSE entries[n]])

\* GitFS::walk_dir: the merged listing of directory ino.  tree_id is
\* Some(oid) for a GitTree and None for a DirtyDir; iofail makes the listing
\* of the underlying directory fail; bad are the names whose directory entry
\* or metadata cannot be read.
walk_dir(m, d, ino, tree_id, gitfail, iofail, bad) ==
    LET git == IF tree_id = None THEN Some(EmptyMap)
               ELSE walk_tree(ino, Unwrap(tree_id), gitfail)
        pfx == prefix(m, ino)
    IN  IF git = None THEN WalkErr(ENOENT)
        ELSE IF pfx = None THEN WalkPanic
        ELSE LET entries  == Unwrap(git)
                 path     == Unwrap(pfx)
                 dir_iter == list_dir(d, path, iofail)
             IN  IF dir_iter = None /\ tree_id # None THEN WalkOk(entries)
                 ELSE IF dir_iter = None THEN WalkErr(EIO)
                 ELSE LET seen  == Unwrap(dir_iter) \ bad
                          ty(n) == simple_type(d, path \o <<n>>)
                          dirs  == {n \in seen : ty(n) = "Dir" /\ n \notin DOMAIN entries}
                          files == {n \in seen : ty(n) = "File"}
                      IN  WalkOk([n \in DOMAIN entries \cup dirs \cup files |->
                                IF n \in files
                                THEN Entry(n, ino, StatMode(d, path \o <<n>>),
                                           StatSize(d, path \o <<n>>), DirtyFile(0, None))
                                ELSE IF n \in dirs
                                THEN Entry(n, ino, StatMode(d, path \o <<n>>),
                                           StatSize(d, path \o <<n>>), DirtyDir(None))
                                ELSE entries[n]])

\* the orders in which a HashMap with key set S may be iterated
Orders(S) == {f \in [1..Cardinality(S) -> S] : \A i, j \in DOMAIN f : f[i] = f[j] => i = j}

RECURSIVE AddAll(_, _, _)
\* Step 2 of do_opendir: register walk's entries in iteration order ord
AddAll(m, walk, ord) ==
    IF ord = <<>> THEN m ELSE AddAll(InoMapAdd(m, walk[Head(ord)]), walk, Tail(ord))

DirOk(m) == [res |-> "Ok", errno |-> "", inomap |-> m]

DirErr(m, e) == [res |-> "Err", errno |-> e, inomap |-> m]

DirPanic(m) == [res |-> "Panic", errno |-> "", inomap |-> m]

\* Entry.u with its children replaced
WithChildren(e, c) == [e EXCEPT !.u.children = c]

\* do_opendir as it would be if it walked the directory on every call
do_opendir_always_walks(m, d, ino, gitfail, iofail, bad) ==
    IF ino \notin DOMAIN m.inner THEN {DirErr(m, ENOENT)}
    ELSE LET dir_entry == m.inner[ino]
         IN  IF IsFile(dir_entry) THEN {DirErr(m, ENOTDIR)}
             ELSE LET walk == walk_dir(m, d, ino,
                                       IF dir_entry.u.kind = "GitTree"
                                       THEN Some(dir_entry.u.oid) ELSE None,
                                       gitfail, iofail, bad)
                  IN  IF walk.res = "Err" THEN {DirErr(m, walk.errno)}
                      ELSE IF walk.res = "Panic" THEN {DirPanic(m)}
                      ELSE { LET children_entries ==
                                     [n \in DOMAIN walk.entries |->
                                         m.next_ino - 1 + (CHOOSE i \in DOMAIN ord : ord[i] = n)]
                                 m2 == AddAll(m, walk.entries, ord)
                             IN  DirOk(InoMapSet(m2, ino,
                                        WithChildren(dir_entry, Some(children_entries))))
                             : ord \in Orders(DOMAIN walk.entries) }

\* GitFS::do_opendir: the set of possible outcomes (one per iteration order
\* of the walk's HashMap)
do_opendir(m, d, ino, gitfail, iofail, bad) ==
    IF ino \notin DOMAIN m.inner THEN {DirErr(m, ENOENT)}
    ELSE LET dir_entry == m.inner[ino]
         IN  IF IsFile(dir_entry) THEN {DirErr(m, ENOTDIR)}
             ELSE IF dir_entry.u.children # None THEN {DirOk(m)}
             ELSE LET walk == walk_dir(m, d, ino,
                                       IF dir_entry.u.kind = "GitTree"
                                       THEN Some(dir_entry.u.oid) ELSE None,
                                       gitfail, iofail, bad)
                  IN  IF walk.res = "Err" THEN {DirErr(m, walk.errno)}
                      ELSE IF walk.res = "Panic" THEN {DirPanic(m)}
                      ELSE { LET children_entries ==
                                     [n \in DOMAIN walk.entries |->
                                         m.next_ino - 1 + (CHOOSE i \in DOMAIN ord : ord[i] = n)]
                                 m2 == AddAll(m, walk.entries, ord)
                             IN  DirOk(InoMapSet(m2, ino,
                                        WithChildren(dir_entry, Some(children_entries))))
                             : ord \in Orders(DOMAIN walk.entries) }

----------------------------------------------------------------------------
(* Replies.  A handler owns one reply object; `sent` counts the replies the *)
(* handler body itself sent.  A reply object dropped unsent (the handler    *)
(* returned or unwound without replying) makes fuser answer EIO.            *)

Request(op, ino, name, ino2, name2) ==
    [op |-> op, ino |-> ino, name |-> name, ino2 |-> ino2, name2 |-> name2, size |-> 0]

NoAttr == [ino |-> 0, size |-> 0, kind |-> "", perm |-> 0, nlink |-> 0]

\* reply.error(errno)
ReplyError(rq, e) ==
    [rq |-> rq, sent |-> 1, errno |-> e, attr |-> NoAttr, data |-> <<>>, n |-> 0,
     entries |-> <<>>]

\* reply.ok() / reply.opened(0, 0)
ReplyOk(rq) ==
    [rq |-> rq, sent |-> 1, errno |-> "", attr |-> NoAttr, data |-> <<>>, n |-> 0,
     entries |-> <<>>]

\* reply.entry(..) / reply.attr(..) / reply.created(..)
ReplyAttr(rq, attr) ==
    [rq |-> rq, sent |-> 1, errno |-> "", attr |-> attr, data |-> <<>>, n |-> 0,
     entries |-> <<>>]

\* reply.data(bytes)
ReplyData(rq, bytes) ==
    [rq |-> rq, sent |-> 1, errno |-> "", attr |-> NoAttr, data |-> bytes, n |-> 0,
     entries |-> <<>>]

\* reply.written(n)
ReplyWritten(rq, n) ==
    [rq |-> rq, sent |-> 1, errno |-> "", attr |-> NoAttr, data |-> <<>>, n |-> n,
     entries |-> <<>>]

\* reply.add(ino, offset, kind, name) for every entry of entries; reply.ok()
ReplyDirectory(rq, entries) ==
    [rq |-> rq, sent |-> 1, errno |-> "", attr |-> NoAttr, data |-> <<>>, n |-> 0,
     entries |-> entries]

\* the reply object dropped without a reply
ReplyDropped(rq) ==
    [rq |-> rq, sent |-> 0, errno |-> EIO, attr |-> NoAttr, data |-> <<>>, n |-> 0,
     entries |-> <<>>]

\* GitFS::make_attr; `as u16` keeps the low 16 bits of the mode
make_attr(ino, entry) ==
    [ino   |-> ino,
     size  |-> entry.size,
     kind  |-> FileType(entry),
     perm  |-> entry.perm % 65536,
     nlink |-> IF FileType(entry) = "Directory" THEN 2 ELSE 1]

\* a handler step that ends in unreachable!() or a failed unwrap(): the
\* state keeps what the handler had done by then, and the process is gone
Panics(rq, m, d) ==
    /\ inomap' = m
    /\ underlying_dir' = d
    /\ reply' = ReplyDropped(rq)
    /\ panicked' = TRUE
    /\ UNCHANGED <<opens, dirstream, removed>>

\* what the kernel holds removed once it has the reply r: a name it
\* unlinked or rmdir'ed with success, until a create, mkdir or rename gives
\* the name to something again
Removed(r) ==
    IF r.sent # 1 \/ r.errno # "" THEN removed
    ELSE IF r.rq.op \in {"unlink", "rmdir"} THEN removed \cup {<<r.rq.ino, r.rq.name>>}
    ELSE IF r.rq.op \in {"create", "mkdir"} THEN removed \ {<<r.rq.ino, r.rq.name>>}
    ELSE IF r.rq.op = "rename" THEN removed \ {<<r.rq.ino2, r.rq.name2>>}
    ELSE removed

\* a handler step that replies r and leaves the registry at m and the
\* underlying directory at d
Finishes(r, m, d) ==
    /\ inomap' = m
    /\ underlying_dir' = d
    /\ reply' = r
    /\ removed' = Removed(r)
    /\ UNCHANGED <<opens, panicked, dirstream>>

----------------------------------------------------------------------------
(* The state after GitFS::new and init.                                     *)

\* no directory is being read
NoStream ==
    [ino |-> 0, children |-> None, order |-> <<>>, cookie |-> 0, names |-> <<>>,
     calls |-> 0, done |-> FALSE]

\* the names the kernel asks for
Names == {"a", "s", "x", "d", "y"}

\* root_entry as it would be if the root were registered as a dirty directory
root_entry_dirty == Entry("", ROOT, ModeDir, 0, DirtyDir(None))

\* GitFS::root_entry
root_entry == Entry("", ROOT, ModeDir, 0, GitTree(RootTree, None))

\* what the underlying directory may hold at mount time
InitDirs ==
    { [tree |-> (<<>> :> DirNode(ModeDir)), files |-> EmptyMap, next_fid |-> 1],
      [tree |-> (<<>> :> DirNode(ModeDir)) @@ (<<"a">> :> FileNode(1, ModeFile))
                @@ (<<"s">> :> DirNode(ModeDir)) @@ (<<"s", "c">> :> FileNode(2, ModeFile)),
       files |-> (1 :> <<9>>) @@ (2 :> <<8>>), next_fid |-> 3],
      [tree |-> (<<>> :> DirNode(ModeDir)) @@ (<<"a">> :> DirNode(ModeDir))
                @@ (<<"s">> :> FileNode(1, ModeFile)),
       files |-> (1 :> <<9>>), next_fid |-> 2] }

Init ==
    /\ inomap = InoMapAdd(InoMapNew, root_entry)
    /\ underlying_dir \in InitDirs
    /\ opens = [i \in 1..MaxIno |-> [ro |-> 0, wr |-> 0]]
    /\ reply = ReplyOk(Request("init", 0, "", 0, ""))
    /\ panicked = FALSE
    /\ steps = 0
    /\ dirstream = NoStream
    /\ removed = {}

----------------------------------------------------------------------------
(* The handlers of impl Filesystem for GitFS.                               *)

\* the tail of lookup: find name among the cached children of parent
LookupChild(rq, m, parent, name) ==
    LET children == Unwrap(m.inner[parent].u.children)
    IN  IF name \notin DOMAIN children THEN ReplyError(rq, ENOENT)
        ELSE IF children[name] \notin DOMAIN m.inner THEN ReplyError(rq, ENOENT)
        ELSE ReplyAttr(rq, make_attr(children[name], m.inner[children[name]]))

\* GitFS::lookup
lookup(parent, name, gitfail, iofail, bad) ==
    LET rq == Request("lookup", parent, name, 0, "")
    IN  IF parent \notin DOMAIN inomap.inner
        THEN Finishes(ReplyError(rq, ENOENT), inomap, underlying_dir)
        ELSE IF IsFile(inomap.inner[parent])
        THEN Finishes(ReplyError(rq, ENOTDIR), inomap, underlying_dir)
        ELSE IF inomap.inner[parent].u.children # None
        THEN Finishes(LookupChild(rq, inomap, parent, name), inomap, underlying_dir)
        ELSE \E out \in do_opendir(inomap, underlying_dir, parent, gitfail, iofail, bad) :
                /\ out.inomap.next_ino <= MaxIno + 1
                /\ IF out.res = "Err"
                   THEN Finishes(ReplyError(rq, out.errno), inomap, underlying_dir)
                   ELSE IF out.res = "Panic"
                   THEN Panics(rq, inomap, underlying_dir)
                   ELSE Finishes(LookupChild(rq, out.inomap, parent, name),
                                 out.inomap, underlying_dir)

\* GitFS::getattr
getattr(ino) ==
    LET rq == Request("getattr", ino, "", 0, "")
    IN  IF ino \notin DOMAIN inomap.inner
        THEN Finishes(ReplyError(rq, ENOENT), inomap, underlying_dir)
        ELSE Finishes(ReplyAttr(rq, make_attr(ino, inomap.inner[ino])),
                      inomap, underlying_dir)

\* setattr as it would be if a size given for an open DirtyFile also cut
\* the underlying file to that length
setattr_truncates(ino, mode, size) ==
    LET rq == [Request("setattr", ino, "", IF mode = None THEN -1 ELSE Unwrap(mode), "")
                  EXCEPT !.size = IF size = None THEN -1 ELSE Unwrap(size)]
    IN  IF ino \notin DOMAIN inomap.inner
        THEN Finishes(ReplyError(rq, ENOENT), inomap, underlying_dir)
        ELSE LET entry == inomap.inner[ino]
                 e1    == IF mode = None THEN entry ELSE [entry EXCEPT !.perm = Unwrap(mode)]
                 e2    == IF size = None THEN e1 ELSE [e1 EXCEPT !.size = Unwrap(size)]
                 d2    == IF size # None /\ entry.u.kind = "DirtyFile" /\ entry.u.file # None
                          THEN [underlying_dir EXCEPT
                                   !.files[Unwrap(entry.u.file).fid] =
                                       SubSeq(@, 1, Min(Len(@), Unwrap(size)))]
                          ELSE underlying_dir
             IN  Finishes(ReplyAttr(rq, make_attr(ino, e2)),
                          InoMapSet(inomap, ino, e2), d2)

\* GitFS::setattr; mode and size are Option values (the request record
\* keeps them in ino2 and size, -1 for None).  Only the registry's
\* attributes change: nothing is done to the underlying file.
setattr(ino, mode, size) ==
    LET rq == [Request("setattr", ino, "", IF mode = None THEN -1 ELSE Unwrap(mode), "")
                  EXCEPT !.size = IF size = None THEN -1 ELSE Unwrap(size)]
    IN  IF ino \notin DOMAIN inomap.inner
        THEN Finishes(ReplyError(rq, ENOENT), inomap, underlying_dir)
        ELSE LET entry == inomap.inner[ino]
                 e1    == IF mode = None THEN entry ELSE [entry EXCEPT !.perm = Unwrap(mode)]
                 e2    == IF size = None THEN e1 ELSE [e1 EXCEPT !.size = Unwrap(size)]
             IN  Finishes(ReplyAttr(rq, make_attr(ino, e2)),
                          InoMapSet(inomap, ino, e2), underlying_dir)

\* GitFS::opendir
opendir(ino, gitfail, iofail, bad) ==
    LET rq == Request("opendir", ino, "", 0, "")
    IN  \E out \in do_opendir(inomap, underlying_dir, ino, gitfail, iofail, bad) :
            /\ out.inomap.next_ino <= MaxIno + 1
            /\ IF out.res = "Err"
               THEN Finishes(ReplyError(rq, out.errno), inomap, underlying_dir)
               ELSE IF out.res = "Panic"
               THEN Panics(rq, inomap, underlying_dir)
               ELSE Finishes(ReplyOk(rq), out.inomap, underlying_dir)

\* readdir as it would be if the cookie of an entry were its 0-based position
readdir_cookie_is_position(ino, offset, cap, ord) ==
    LET rq == [Request("readdir", ino, "", offset, "") EXCEPT !.size = cap]
    IN  IF ino \notin DOMAIN inomap.inner
        THEN Finishes(ReplyError(rq, ENOENT), inomap, underlying_dir)
        ELSE LET entry == inomap.inner[ino]
             IN  IF IsFile(entry)
                 THEN Finishes(ReplyError(rq, ENOTDIR), inomap, underlying_dir)
                 ELSE IF entry.u.children = None
                 THEN \* readdir cannot be called before opendir: unreachable!()
                      Panics(rq, inomap, underlying_dir)
                 ELSE LET children == Unwrap(entry.u.children)
                          \* enumerate().skip(offset), until reply.add finds the
                          \* buffer full
                          added == [k \in 1..Min(cap, Max(0, Len(ord) - offset)) |->
                                      [ino    |-> children[ord[offset + k]],
                                       cookie |-> offset + k - 1,
                                       kind   |-> FileType(entry),
                                       name   |-> ord[offset + k]]]
                          stream == IF offset = 0
                                    THEN [NoStream EXCEPT !.ino = ino,
                                                          !.children = entry.u.children]
                                    ELSE dirstream
                      IN  /\ reply' = ReplyDirectory(rq, added)
                          /\ dirstream' =
                                [stream EXCEPT
                                    !.order  = ord,
                                    !.calls  = @ + 1,
                                    !.names  = @ \o [k \in DOMAIN added |-> added[k].name],
                                    !.cookie = IF added = <<>> THEN @
                                               ELSE added[Len(added)].cookie,
                                    !.done   = (added = <<>>)]
                          /\ UNCHANGED <<inomap, underlying_dir, opens, panicked, removed>>

\* GitFS::readdir.  cap is the number of entries the reply buffer takes
\* (reply.add returns true, without adding, when the buffer is full); ord is
\* the order in which the children HashMap iterates.  The handler's reply
\* extends the kernel's directory stream.
readdir(ino, offset, cap, ord) ==
    LET rq == [Request("readdir", ino, "", offset, "") EXCEPT !.size = cap]
    IN  IF ino \notin DOMAIN inomap.inner
        THEN Finishes(ReplyError(rq, ENOENT), inomap, underlying_dir)
        ELSE LET entry == inomap.inner[ino]
             IN  IF IsFile(entry)
                 THEN Finishes(ReplyError(rq, ENOTDIR), inomap, underlying_dir)
                 ELSE IF entry.u.children = None
                 THEN \* readdir cannot be called before opendir: unreachable!()
                      Panics(rq, inomap, underlying_dir)
                 ELSE LET children == Unwrap(entry.u.children)
                          \* enumerate().skip(offset), until reply.add finds the
                          \* buffer full
                          added == [k \in 1..Min(cap, Max(0, Len(ord) - offset)) |->
                                      [ino    |-> children[ord[offset + k]],
                                       cookie |-> offset + k,
                                       kind   |-> FileType(entry),
                                       name   |-> ord[offset + k]]]
                          stream == IF offset = 0
                                    THEN [NoStream EXCEPT !.ino = ino,
                                                          !.children = entry.u.children]
                                    ELSE dirstream
                      IN  /\ reply' = ReplyDirectory(rq, added)
                          /\ dirstream' =
                                [stream EXCEPT
                                    !.order  = ord,
                                    !.calls  = @ + 1,
                                    !.names  = @ \o [k \in DOMAIN added |-> added[k].name],
                                    !.cookie = IF added = <<>> THEN @
                                               ELSE added[Len(added)].cookie,
                                    !.done   = (added = <<>>)]
                          /\ UNCHANGED <<inomap, underlying_dir, opens, panicked, removed>>

\* the kernel's open table after a successful open or create of ino
Opened(ino, flags) ==
    IF IsReadOnlyFlags(flags)
    THEN [opens EXCEPT ![ino].ro = @ + 1]
    ELSE [opens EXCEPT ![ino].wr = @ + 1]

\* GitFS::open_dirty_file
open_dirty_file(m, d, ino, io) ==
    LET path  == Unwrap(prefix(m, ino))
        entry == m.inner[ino]
        f     == update_file(d, path, entry.perm, io)
    IN  IF ~f.ok THEN [ok |-> FALSE, err |-> f.err, inomap |-> m, dir |-> f.dir]
        ELSE [ok |-> TRUE, err |-> "", dir |-> f.dir,
              inomap |-> InoMapSet(m, ino,
                            [entry EXCEPT !.u = DirtyFile(1, Some(File(f.fid, "RW")))])]

\* open_git_blob_for_update as it would be without the checkout of the
\* blob (no write_all of its content into the new file)
open_git_blob_without_checkout(m, d, oid, ino, io) ==
    LET path  == Unwrap(prefix(m, ino))
        entry == m.inner[ino]
        f     == update_file(d, path, entry.perm, io = "open")
    IN  IF ~f.ok THEN [ok |-> FALSE, err |-> f.err, inomap |-> m, dir |-> f.dir]
        ELSE IF io = "write" THEN [ok |-> FALSE, err |-> EIO, inomap |-> m, dir |-> f.dir]
        ELSE [ok |-> TRUE, err |-> "",
              dir |-> f.dir,
              inomap |-> InoMapSet(m, ino,
                            [entry EXCEPT !.u = DirtyFile(1, Some(File(f.fid, "RW")))])]

\* open_git_blob_for_update as it would be if it replaced the entry before
\* it wrote the blob
open_git_blob_entry_first(m, d, oid, ino, io) ==
    LET path  == Unwrap(prefix(m, ino))
        entry == m.inner[ino]
        f     == update_file(d, path, entry.perm, io = "open")
        m1    == InoMapSet(m, ino, [entry EXCEPT !.u = DirtyFile(1, Some(File(f.fid, "RW")))])
    IN  IF ~f.ok THEN [ok |-> FALSE, err |-> f.err, inomap |-> m, dir |-> f.dir]
        ELSE IF io = "write" THEN [ok |-> FALSE, err |-> EIO, inomap |-> m1, dir |-> f.dir]
        ELSE [ok |-> TRUE, err |-> "",
              dir |-> [f.dir EXCEPT !.files[f.fid] = WriteAt(@, 0, GitBlobs[oid])],
              inomap |-> m1]

\* GitFS::open_git_blob_for_update; io is "open" when update_file fails,
\* "write" when write_all fails, "none" otherwise
open_git_blob_for_update(m, d, oid, ino, io) ==
    LET path  == Unwrap(prefix(m, ino))
        entry == m.inner[ino]
        f     == update_file(d, path, entry.perm, io = "open")
    IN  IF ~f.ok THEN [ok |-> FALSE, err |-> f.err, inomap |-> m, dir |-> f.dir]
        ELSE IF io = "write" THEN [ok |-> FALSE, err |-> EIO, inomap |-> m, dir |-> f.dir]
        ELSE [ok |-> TRUE, err |-> "",
              dir |-> [f.dir EXCEPT !.files[f.fid] = WriteAt(@, 0, GitBlobs[oid])],
              inomap |-> InoMapSet(m, ino,
                            [entry EXCEPT !.u = DirtyFile(1, Some(File(f.fid, "RW")))])]

\* GitFS::open
open(ino, flags, gitfail, io) ==
    LET rq == Request("open", ino, "", flags, "")
    IN  IF ino \notin DOMAIN inomap.inner
        THEN Finishes(ReplyError(rq, ENOENT), inomap, underlying_dir)
        ELSE LET entry == inomap.inner[ino]
             IN  IF IsDirectory(entry)
                 THEN Finishes(ReplyError(rq, EISDIR), inomap, underlying_dir)
                 ELSE IF entry.u.kind = "DirtyFile" /\ entry.u.file # None
                 THEN \* *refcnt += 1, and the match arm ends without a reply
                      /\ entry.u.refcnt < MaxRefcnt
                      /\ Finishes(ReplyDropped(rq),
                                  InoMapSet(inomap, ino, [entry EXCEPT !.u.refcnt = @ + 1]),
                                  underlying_dir)
                 ELSE IF entry.u.kind = "DirtyFile"
                 THEN LET m1 == InoMapSet(inomap, ino, [entry EXCEPT !.u.refcnt = 1])
                      IN  IF prefix(m1, ino) = None THEN Panics(rq, m1, underlying_dir)
                          ELSE LET o == open_dirty_file(m1, underlying_dir, ino, io # "none")
                               IN  /\ o.dir.next_fid <= MaxFid + 1
                                   /\ inomap' = o.inomap
                                   /\ underlying_dir' = o.dir
                                   /\ reply' = IF o.ok THEN ReplyOk(rq) ELSE ReplyError(rq, o.err)
                                   /\ opens' = IF o.ok THEN Opened(ino, flags) ELSE opens
                                   /\ UNCHANGED <<panicked, dirstream, removed>>
                 ELSE IF IsReadOnlyFlags(flags)
                 THEN /\ reply' = ReplyOk(rq)
                      /\ opens' = Opened(ino, flags)
                      /\ UNCHANGED <<inomap, underlying_dir, panicked, dirstream, removed>>
                 ELSE IF prefix(inomap, ino) = None \/ gitfail
                 THEN Panics(rq, inomap, underlying_dir)
                 ELSE LET o == open_git_blob_for_update(inomap, underlying_dir,
                                                        entry.u.oid, ino, io)
                      IN  /\ o.dir.next_fid <= MaxFid + 1
                          /\ inomap' = o.inomap
                          /\ underlying_dir' = o.dir
                          /\ reply' = IF o.ok THEN ReplyOk(rq) ELSE ReplyError(rq, o.err)
                          /\ opens' = IF o.ok THEN Opened(ino, flags) ELSE opens
                          /\ UNCHANGED <<panicked, dirstream, removed>>

\* read as it would be if a GitBlob were always read from its first byte
read_from_start(ino, offset, size, gitfail, io) ==
    LET rq == [Request("read", ino, "", offset, "") EXCEPT !.size = size]
    IN  IF ino \notin DOMAIN inomap.inner
        THEN Finishes(ReplyError(rq, ENOENT), inomap, underlying_dir)
        ELSE LET entry == inomap.inner[ino]
             IN  IF entry.u.kind = "GitBlob"
                 THEN IF gitfail \/ offset + size > Len(GitBlobs[entry.u.oid])
                      THEN Panics(rq, inomap, underlying_dir)
                      ELSE Finishes(ReplyData(rq, SubSeq(GitBlobs[entry.u.oid], 1, size)),
                                    inomap, underlying_dir)
                 ELSE IF entry.u.kind = "DirtyFile"
                 THEN IF entry.u.file = None
                      THEN Finishes(ReplyError(rq, EIO), inomap, underlying_dir)
                      ELSE LET file == Unwrap(entry.u.file)
                           IN  IF file.mode = "WO"
                               THEN Finishes(ReplyError(rq, EBADF), inomap, underlying_dir)
                               ELSE IF io
                               THEN Finishes(ReplyError(rq, EIO), inomap, underlying_dir)
                               ELSE Finishes(ReplyData(rq,
                                        ReadAt(underlying_dir.files[file.fid], offset, size)),
                                        inomap, underlying_dir)
                 ELSE Finishes(ReplyError(rq, EISDIR), inomap, underlying_dir)

\* GitFS::read
read(ino, offset, size, gitfail, io) ==
    LET rq == [Request("read", ino, "", offset, "") EXCEPT !.size = size]
    IN  IF ino \notin DOMAIN inomap.inner
        THEN Finishes(ReplyError(rq, ENOENT), inomap, underlying_dir)
        ELSE LET entry == inomap.inner[ino]
             IN  IF entry.u.kind = "GitBlob"
                 THEN IF gitfail \/ offset + size > Len(GitBlobs[entry.u.oid])
                      THEN \* find_blob(..).unwrap() or the slice out of range
                           Panics(rq, inomap, underlying_dir)
                      ELSE Finishes(ReplyData(rq, SubSeq(GitBlobs[entry.u.oid],
                                                         offset + 1, offset + size)),
                                    inomap, underlying_dir)
                 ELSE IF entry.u.kind = "DirtyFile"
                 THEN IF entry.u.file = None
                      THEN Finishes(ReplyError(rq, EIO), inomap, underlying_dir)
                      ELSE LET file == Unwrap(entry.u.file)
                           IN  IF file.mode = "WO"
                               THEN Finishes(ReplyError(rq, EBADF), inomap, underlying_dir)
                               ELSE IF io
                               THEN Finishes(ReplyError(rq, EIO), inomap, underlying_dir)
                               ELSE Finishes(ReplyData(rq,
                                        ReadAt(underlying_dir.files[file.fid], offset, size)),
                                        inomap, underlying_dir)
                 ELSE Finishes(ReplyError(rq, EISDIR), inomap, underlying_dir)

\* GitFS::write
write(ino, offset, data, io) ==
    LET rq == Request("write", ino, "", offset, "")
    IN  IF ino \notin DOMAIN inomap.inner
        THEN Finishes(ReplyError(rq, ENOENT), inomap, underlying_dir)
        ELSE LET entry == inomap.inner[ino]
             IN  IF IsDirectory(entry)
                 THEN Finishes(ReplyError(rq, EISDIR), inomap, underlying_dir)
                 ELSE IF entry.u.kind = "DirtyFile" /\ entry.u.file # None
                 THEN IF io
                      THEN Finishes(ReplyError(rq, EIO), inomap, underlying_dir)
                      ELSE LET fid == Unwrap(entry.u.file).fid
                           IN  Finishes(ReplyWritten(rq, Len(data)),
                                  InoMapSet(inomap, ino,
                                     [entry EXCEPT !.size = Max(@, offset + Len(data))]),
                                  [underlying_dir EXCEPT
                                     !.files[fid] = WriteAt(@, offset, data)])
                 ELSE \* a GitBlob, or a DirtyFile without a handle: unreachable!()
                      Panics(rq, inomap, underlying_dir)

\* flush as it would be if it did not look at the kind of the entry
flush_any_kind(ino) ==
    LET rq == Request("flush", ino, "", 0, "")
    IN  IF ino \notin DOMAIN inomap.inner
        THEN Finishes(ReplyError(rq, ENOENT), inomap, underlying_dir)
        ELSE Finishes(ReplyOk(rq), inomap, underlying_dir)

\* GitFS::flush
flush(ino) ==
    LET rq == Request("flush", ino, "", 0, "")
    IN  IF ino \notin DOMAIN inomap.inner
        THEN Finishes(ReplyError(rq, ENOENT), inomap, underlying_dir)
        ELSE LET entry == inomap.inner[ino]
             IN  IF IsDirectory(entry)
                 THEN Finishes(ReplyError(rq, EISDIR), inomap, underlying_dir)
                 ELSE IF entry.u.kind = "GitBlob"
                 THEN Finishes(ReplyOk(rq), inomap, underlying_dir)
                 ELSE IF entry.u.file # None
                 THEN Finishes(ReplyOk(rq), inomap, underlying_dir)
                 ELSE Panics(rq, inomap, underlying_dir)

\* the kernel's open table after it released one open of ino; wi says
\* whether the released open was a write-intent one
Released(ino, wi) ==
    IF wi THEN [opens EXCEPT ![ino].wr = @ - 1] ELSE [opens EXCEPT ![ino].ro = @ - 1]

\* release as it would be if the last close of a file made its entry a
\* committed blob again
release_reverts_to_blob(ino, wi) ==
    LET rq == Request("release", ino, "", 0, "")
    IN  /\ opens' = Released(ino, wi)
        /\ UNCHANGED <<underlying_dir, panicked, dirstream, removed>>
        /\ IF ino \notin DOMAIN inomap.inner
           THEN reply' = ReplyError(rq, ENOENT) /\ UNCHANGED inomap
           ELSE LET entry == inomap.inner[ino]
                IN  IF IsDirectory(entry)
                    THEN reply' = ReplyError(rq, EISDIR) /\ UNCHANGED inomap
                    ELSE IF entry.u.kind = "GitBlob"
                    THEN reply' = ReplyOk(rq) /\ UNCHANGED inomap
                    ELSE /\ reply' = ReplyOk(rq)
                         /\ inomap' = InoMapSet(inomap, ino,
                               IF entry.u.refcnt - 1 <= 0
                               THEN [entry EXCEPT !.u = GitBlob("B1")]
                               ELSE [entry EXCEPT !.u.refcnt = @ - 1])

\* release as it would be without the clamp of refcnt at zero
release_unclamped(ino, wi) ==
    LET rq == Request("release", ino, "", 0, "")
    IN  /\ opens' = Released(ino, wi)
        /\ UNCHANGED <<underlying_dir, panicked, dirstream, removed>>
        /\ IF ino \notin DOMAIN inomap.inner
           THEN reply' = ReplyError(rq, ENOENT) /\ UNCHANGED inomap
           ELSE LET entry == inomap.inner[ino]
                IN  IF IsDirectory(entry)
                    THEN reply' = ReplyError(rq, EISDIR) /\ UNCHANGED inomap
                    ELSE IF entry.u.kind = "GitBlob"
                    THEN reply' = ReplyOk(rq) /\ UNCHANGED inomap
                    ELSE /\ reply' = ReplyOk(rq)
                         /\ inomap' = InoMapSet(inomap, ino,
                               IF entry.u.refcnt - 1 = 0
                               THEN [entry EXCEPT !.u.refcnt = 0, !.u.file = None]
                               ELSE [entry EXCEPT !.u.refcnt = @ - 1])

\* GitFS::release; wi belongs to the kernel's side of the call (which of its
\* opens it is closing), the handler does not see it
release(ino, wi) ==
    LET rq == Request("release", ino, "", 0, "")
    IN  /\ opens' = Released(ino, wi)
        /\ UNCHANGED <<underlying_dir, panicked, dirstream, removed>>
        /\ IF ino \notin DOMAIN inomap.inner
           THEN reply' = ReplyError(rq, ENOENT) /\ UNCHANGED inomap
           ELSE LET entry == inomap.inner[ino]
                IN  IF IsDirectory(entry)
                    THEN reply' = ReplyError(rq, EISDIR) /\ UNCHANGED inomap
                    ELSE IF entry.u.kind = "GitBlob"
                    THEN reply' = ReplyOk(rq) /\ UNCHANGED inomap
                    ELSE /\ reply' = ReplyOk(rq)
                         /\ inomap' = InoMapSet(inomap, ino,
                               IF entry.u.refcnt - 1 <= 0
                               THEN [entry EXCEPT !.u.refcnt = 0, !.u.file = None]
                               ELSE [entry EXCEPT !.u.refcnt = @ - 1])

\* is e a directory whose children are cached
IsListed(e) == IsDirectory(e) /\ e.u.children # None

\* Entry::add_child / children.insert(name, ino) on a listed directory
add_child(e, name, ino) == WithChildren(e, Some(MapInsert(Unwrap(e.u.children), name, ino)))

\* Entry::remove_child on a listed directory
remove_child(e, name) == WithChildren(e, Some(MapRemove(Unwrap(e.u.children), name)))

\* GitFS::create
create(parent, name, mode, io) ==
    LET rq == Request("create", parent, name, 0, "")
        p  == prefix(inomap, parent)
    IN  IF p = None THEN Finishes(ReplyError(rq, EIO), inomap, underlying_dir)
        ELSE LET file == write_file(underlying_dir, Unwrap(p) \o <<name>>, mode, io)
             IN  IF ~file.ok THEN Finishes(ReplyError(rq, file.err), inomap, underlying_dir)
                 ELSE LET fentry == Entry(name, parent, mode, 0,
                                          DirtyFile(1, Some(File(file.fid, "WO"))))
                          attr   == make_attr(inomap.next_ino, fentry)
                          ino    == inomap.next_ino
                          m1     == InoMapAdd(inomap, fentry)
                      IN  /\ m1.next_ino <= MaxIno + 1
                          /\ file.dir.next_fid <= MaxFid + 1
                          /\ IF parent \notin DOMAIN m1.inner
                             THEN Finishes(ReplyError(rq, ENOENT), m1, file.dir)
                             ELSE IF ~IsListed(m1.inner[parent])
                             THEN Panics(rq, m1, file.dir)
                             ELSE /\ inomap' = InoMapSet(m1, parent,
                                                  add_child(m1.inner[parent], name, ino))
                                  /\ underlying_dir' = file.dir
                                  /\ reply' = ReplyAttr(rq, attr)
                                  /\ opens' = [opens EXCEPT ![ino].wr = @ + 1]
                                  /\ removed' = Removed(ReplyAttr(rq, attr))
                                  /\ UNCHANGED <<panicked, dirstream>>

\* GitFS::mkdir
mkdir(parent, name, mode, io) ==
    LET rq == Request("mkdir", parent, name, 0, "")
        p  == prefix(inomap, parent)
    IN  IF p = None THEN Finishes(ReplyError(rq, EIO), inomap, underlying_dir)
        ELSE LET made == create_dir(underlying_dir, Unwrap(p) \o <<name>>, mode, io)
             IN  IF ~made.ok THEN Finishes(ReplyError(rq, made.err), inomap, underlying_dir)
                 ELSE LET dentry == Entry(name, parent, mode, 0, DirtyDir(None))
                          attr   == make_attr(inomap.next_ino, dentry)
                          ino    == inomap.next_ino
                          m1     == InoMapAdd(inomap, dentry)
                      IN  /\ m1.next_ino <= MaxIno + 1
                          /\ IF parent \notin DOMAIN m1.inner
                             THEN Finishes(ReplyError(rq, ENOENT), m1, made.dir)
                             ELSE IF ~IsListed(m1.inner[parent])
                             THEN Panics(rq, m1, made.dir)
                             ELSE Finishes(ReplyAttr(rq, attr),
                                           InoMapSet(m1, parent,
                                               add_child(m1.inner[parent], name, ino)),
                                           made.dir)

\* remove_entry as it would be if the inode stayed in the registry
remove_entry_keeps_inode(m, d, ino, io) ==
    LET path  == Unwrap(prefix(m, ino))
        entry == m.inner[ino]
        r     == IF entry.u.kind = "DirtyFile" THEN remove_file(d, path, io)
                 ELSE IF entry.u.kind = "DirtyDir" THEN remove_dir(d, path, io)
                 ELSE IoOk(d, 0)
    IN  [ok |-> r.ok, err |-> r.err, entry |-> entry, inomap |-> m, dir |-> r.dir]

\* GitFS::remove_entry, entered with prefix(ino) present: detaches ino, then
\* removes what a dirty entry has on disk; on failure hands the entry back
remove_entry(m, d, ino, io) ==
    LET path  == Unwrap(prefix(m, ino))
        entry == m.inner[ino]
        m1    == InoMapRemove(m, ino)
        r     == IF entry.u.kind = "DirtyFile" THEN remove_file(d, path, io)
                 ELSE IF entry.u.kind = "DirtyDir" THEN remove_dir(d, path, io)
                 ELSE IoOk(d, 0)
    IN  [ok |-> r.ok, err |-> r.err, entry |-> entry, inomap |-> m1, dir |-> r.dir]

\* GitFS::do_remove, the body of unlink and of rmdir
do_remove(rq, parent, name, io) ==
    IF parent \notin DOMAIN inomap.inner
    THEN Finishes(ReplyError(rq, ENOENT), inomap, underlying_dir)
    ELSE IF ~IsListed(inomap.inner[parent])
    THEN Panics(rq, inomap, underlying_dir)
    ELSE IF name \notin DOMAIN Unwrap(inomap.inner[parent].u.children)
    THEN Finishes(ReplyError(rq, ENOENT), inomap, underlying_dir)
    ELSE LET child == Unwrap(inomap.inner[parent].u.children)[name]
         IN  IF prefix(inomap, child) = None
             THEN \* remove_entry: prefix(ino).unwrap()
                  Panics(rq, inomap, underlying_dir)
             ELSE LET r == remove_entry(inomap, underlying_dir, child, io)
                  IN  IF r.ok THEN Finishes(ReplyOk(rq), r.inomap, r.dir)
                      ELSE LET ino == r.inomap.next_ino
                               m2  == InoMapAdd(r.inomap, r.entry)
                           IN  /\ m2.next_ino <= MaxIno + 1
                               /\ IF parent \notin DOMAIN m2.inner
                                  THEN \* get_mut(parent).unwrap()
                                       Panics(rq, m2, r.dir)
                                  ELSE Finishes(ReplyError(rq, r.err),
                                                InoMapSet(m2, parent,
                                                    add_child(m2.inner[parent], name, ino)),
                                                r.dir)

\* GitFS::unlink
unlink(parent, name, io) == do_remove(Request("unlink", parent, name, 0, ""), parent, name, io)

\* GitFS::rmdir
rmdir(parent, name, io) == do_remove(Request("rmdir", parent, name, 0, ""), parent, name, io)

\* rename as it would be if it moved the entry in the registry before it
\* renamed the dirty child in the underlying directory
rename_registry_first(parent, name, newparent, newname, io) ==
    LET rq == Request("rename", parent, name, newparent, newname)
    IN  IF parent \notin DOMAIN inomap.inner
        THEN Finishes(ReplyError(rq, ENOENT), inomap, underlying_dir)
        ELSE IF ~IsListed(inomap.inner[parent])
        THEN \* get_child: unreachable!()
             Panics(rq, inomap, underlying_dir)
        ELSE IF name \notin DOMAIN Unwrap(inomap.inner[parent].u.children)
        THEN Finishes(ReplyError(rq, ENOENT), inomap, underlying_dir)
        ELSE LET c == Unwrap(inomap.inner[parent].u.children)[name]
             IN  IF c \notin DOMAIN inomap.inner \/ newparent \notin DOMAIN inomap.inner
                 THEN Finishes(ReplyError(rq, ENOENT), inomap, underlying_dir)
                 ELSE LET cent  == inomap.inner[c]
                          dirty == cent.u.kind \in {"DirtyFile", "DirtyDir"}
                      IN  IF dirty /\ (prefix(inomap, c) = None
                                       \/ prefix(inomap, newparent) = None)
                          THEN Panics(rq, inomap, underlying_dir)
                          ELSE LET mv == IF dirty
                                         THEN local_rename(underlying_dir,
                                                  Unwrap(prefix(inomap, c)),
                                                  Unwrap(prefix(inomap, newparent))
                                                      \o <<newname>>, io)
                                         ELSE IoOk(underlying_dir, 0)
                                   m1 == InoMapSet(inomap, c, [cent EXCEPT !.name = newname])
                                   m2 == InoMapSet(m1, parent,
                                                   remove_child(m1.inner[parent], name))
                               IN  IF ~mv.ok
                                   THEN Finishes(ReplyError(rq, mv.err), m2, underlying_dir)
                                   ELSE IF ~IsListed(m2.inner[newparent])
                                   THEN \* add_child: unreachable!()
                                        Panics(rq, m2, mv.dir)
                                   ELSE Finishes(ReplyOk(rq),
                                            InoMapSet(m2, newparent,
                                                add_child(m2.inner[newparent], newname, c)),
                                            mv.dir)

\* GitFS::rename
rename(parent, name, newparent, newname, io) ==
    LET rq == Request("rename", parent, name, newparent, newname)
    IN  IF parent \notin DOMAIN inomap.inner
        THEN Finishes(ReplyError(rq, ENOENT), inomap, underlying_dir)
        ELSE IF ~IsListed(inomap.inner[parent])
        THEN \* get_child: unreachable!()
             Panics(rq, inomap, underlying_dir)
        ELSE IF name \notin DOMAIN Unwrap(inomap.inner[parent].u.children)
        THEN Finishes(ReplyError(rq, ENOENT), inomap, underlying_dir)
        ELSE LET c == Unwrap(inomap.inner[parent].u.children)[name]
             IN  IF c \notin DOMAIN inomap.inner \/ newparent \notin DOMAIN inomap.inner
                 THEN Finishes(ReplyError(rq, ENOENT), inomap, underlying_dir)
                 ELSE LET cent  == inomap.inner[c]
                          dirty == cent.u.kind \in {"DirtyFile", "DirtyDir"}
                      IN  IF dirty /\ (prefix(inomap, c) = None
                                       \/ prefix(inomap, newparent) = None)
                          THEN Panics(rq, inomap, underlying_dir)
                          ELSE LET mv == IF dirty
                                         THEN local_rename(underlying_dir,
                                                  Unwrap(prefix(inomap, c)),
                                                  Unwrap(prefix(inomap, newparent))
                                                      \o <<newname>>, io)
                                         ELSE IoOk(underlying_dir, 0)
                                   m1 == InoMapSet(inomap, c, [cent EXCEPT !.name = newname])
                                   m2 == InoMapSet(m1, parent,
                                                   remove_child(m1.inner[parent], name))
                               IN  IF ~mv.ok
                                   THEN Finishes(ReplyError(rq, mv.err), inomap, underlying_dir)
                                   ELSE IF ~IsListed(m2.inner[newparent])
                                   THEN \* add_child: unreachable!()
                                        Panics(rq, m2, mv.dir)
                                   ELSE Finishes(ReplyOk(rq),
                                            InoMapSet(m2, newparent,
                                                add_child(m2.inner[newparent], newname, c)),
                                            mv.dir)

----------------------------------------------------------------------------
(* The requests the kernel delivers.  The kernel names only inodes the      *)
(* filesystem handed out; it looks a name up in its parent before it        *)
(* creates, removes or renames it; it reads, writes, flushes and releases   *)
(* only what it holds open.                                                 *)

Inos == 1..MaxIno

\* inode numbers the registry has handed out, registered or not any more
Allocated(ino) == ino < inomap.next_ino

Registered(ino) == ino \in DOMAIN inomap.inner

\* ino is stale for the kernel, or a directory / a file
KDir(ino) == Allocated(ino) /\ (Registered(ino) => IsDirectory(inomap.inner[ino]))

KFile(ino) == Allocated(ino) /\ (Registered(ino) => IsFile(inomap.inner[ino]))

\* a directory the kernel has looked a name up in (which listed it)
KLooked(ino) == Allocated(ino) /\ (Registered(ino) => IsListed(inomap.inner[ino]))

\* lookup(parent, name) would answer with an entry
KPresent(parent, name) ==
    /\ Registered(parent)
    /\ IsListed(inomap.inner[parent])
    /\ name \in DOMAIN Unwrap(inomap.inner[parent].u.children)
    /\ Registered(Unwrap(inomap.inner[parent].u.children)[name])

KChild(parent, name) == Unwrap(inomap.inner[parent].u.children)[name]

RECURSIVE InSubtree(_, _, _)
\* x is c or lies below c, following the cached children maps
InSubtree(m, c, x) ==
    \/ x = c
    \/ /\ c \in DOMAIN m.inner
       /\ IsListed(m.inner[c])
       /\ \E n \in DOMAIN Unwrap(m.inner[c].u.children) :
              /\ Unwrap(m.inner[c].u.children)[n] # c
              /\ InSubtree(m, Unwrap(m.inner[c].u.children)[n], x)

\* the session loop takes the next request while the process is alive
Serve == ~panicked /\ steps < MaxSteps /\ steps' = steps + 1

\* Each request below is the handler under the kernel's rules; its
\* arguments are the sets the request's free inputs are drawn from, and
\* faults says whether calls into the underlying directory or the
\* repository may fail.

Lookup(names, faults) ==
    /\ Serve
    /\ \E parent \in Inos, name \in names, gitfail \in faults, iofail \in faults :
          KDir(parent) /\ lookup(parent, name, gitfail, iofail, {})

Getattr ==
    /\ Serve
    /\ \E ino \in Inos : Allocated(ino) /\ getattr(ino)

Setattr(modes, sizes) ==
    /\ Serve
    /\ \E ino \in Inos, mode \in modes, size \in sizes :
          Allocated(ino) /\ setattr(ino, mode, size)

Opendir(faults) ==
    /\ Serve
    /\ \E ino \in Inos, gitfail \in faults, iofail \in faults :
          KDir(ino) /\ opendir(ino, gitfail, iofail, {})

\* the kernel reads a directory it has opened: from offset 0, or on from
\* the last cookie it was given.  The children HashMap iterates in the order
\* of the call before as long as it was not changed, in any order otherwise.
Readdir(caps) ==
    /\ Serve
    /\ \E ino \in Inos, cap \in caps, start \in BOOLEAN :
          /\ KDir(ino) /\ KLooked(ino)
          /\ start \/ (dirstream.ino = ino /\ ~dirstream.done)
          /\ LET offset == IF start THEN 0 ELSE dirstream.cookie
                 same   == /\ dirstream.ino = ino
                           /\ Registered(ino)
                           /\ inomap.inner[ino].u.children = dirstream.children
             IN  \E ord \in IF ~Registered(ino) THEN {<<>>}
                            ELSE IF same /\ offset > 0 THEN {dirstream.order}
                            ELSE Orders(DOMAIN Unwrap(inomap.inner[ino].u.children)) :
                     readdir(ino, offset, cap, ord)

Open(flagset, faults) ==
    /\ Serve
    /\ \E ino \in Inos, flags \in flagset, io \in faults :
          /\ KFile(ino)
          /\ opens[ino].ro + opens[ino].wr < MaxOpens
          /\ open(ino, flags, FALSE, io)

Read(offsets, sizes, faults) ==
    /\ Serve
    /\ \E ino \in Inos, offset \in offsets, size \in sizes, io \in faults :
          /\ opens[ino].ro + opens[ino].wr > 0
          /\ Registered(ino) => offset + size <= Max(inomap.inner[ino].size, 1)
          /\ read(ino, offset, size, FALSE, io)

Write(offsets, datas, faults) ==
    /\ Serve
    /\ \E ino \in Inos, offset \in offsets, data \in datas, io \in faults :
          /\ opens[ino].wr > 0
          /\ write(ino, offset, data, io)

Flush ==
    /\ Serve
    /\ \E ino \in Inos : opens[ino].ro + opens[ino].wr > 0 /\ flush(ino)

Release ==
    /\ Serve
    /\ \E ino \in Inos, wi \in BOOLEAN :
          /\ IF wi THEN opens[ino].wr > 0 ELSE opens[ino].ro > 0
          /\ release(ino, wi)

Create(names, faults) ==
    /\ Serve
    /\ \E parent \in Inos, name \in names, io \in faults :
          /\ KDir(parent) /\ KLooked(parent)
          /\ ~KPresent(parent, name)
          /\ create(parent, name, ModeFile, io)

Mkdir(names, faults) ==
    /\ Serve
    /\ \E parent \in Inos, name \in names, io \in faults :
          /\ KDir(parent) /\ KLooked(parent)
          /\ ~KPresent(parent, name)
          /\ mkdir(parent, name, ModeTree, io)

Unlink(faults) ==
    /\ Serve
    /\ \E parent \in Inos, name \in Names, io \in faults :
          /\ KPresent(parent, name)
          /\ IsFile(inomap.inner[KChild(parent, name)])
          /\ unlink(parent, name, io)

Rmdir(faults) ==
    /\ Serve
    /\ \E parent \in Inos, name \in Names, io \in faults :
          /\ KPresent(parent, name)
          /\ IsDirectory(inomap.inner[KChild(parent, name)])
          /\ rmdir(parent, name, io)

Rename(newnames, faults) ==
    /\ Serve
    /\ \E parent \in Inos, name \in Names, newparent \in Inos, newname \in newnames,
          io \in faults :
          /\ KPresent(parent, name)
          /\ KDir(newparent) /\ KLooked(newparent)
          /\ ~InSubtree(inomap, KChild(parent, name), newparent)
          /\ KPresent(newparent, newname) =>
                 IsDirectory(inomap.inner[KChild(newparent, newname)])
                     = IsDirectory(inomap.inner[KChild(parent, name)])
          /\ rename(parent, name, newparent, newname, io)

----------------------------------------------------------------------------
(* Spec: the life of file handles.  The kernel looks files up, lists        *)
(* directories, asks for attributes, opens,                                 *)
(* creates, reads, writes, flushes and releases them.                       *)

NoFault == {FALSE}

AnyFault == BOOLEAN

Next ==
    \/ Lookup({"a"}, NoFault)
    \/ Getattr
    \/ Opendir(NoFault)
    \/ Open({O_RDONLY, O_RDWR}, {"none", "open"})
    \/ Create({"x"}, NoFault)
    \/ Read({0, 1}, {1}, NoFault)
    \/ Write({0, 1}, {<<7>>}, NoFault)
    \/ Flush
    \/ Release

Spec == Init /\ [][Next]_vars

(* SpecTree: the namespace.  The kernel looks names up, creates files and   *)
(* directories, removes and renames them.                                   *)

NextTree ==
    \/ Lookup({"y"}, NoFault)
    \/ Create({"x"}, NoFault)
    \/ Mkdir({"d"}, NoFault)
    \/ Unlink(AnyFault)
    \/ Rmdir(AnyFault)
    \/ Rename({"y"}, NoFault)

SpecTree == Init /\ [][NextTree]_vars

(* SpecDirect: requests put to the handlers one after the other as a test   *)
(* caller would, without the lookups the kernel sends of its own accord.    *)

DirectLookup ==
    /\ Serve
    /\ \E parent \in Inos, name \in {"x", "y"} :
          Allocated(parent) /\ lookup(parent, name, FALSE, FALSE, {})

DirectCreate ==
    /\ Serve
    /\ \E parent \in Inos : Allocated(parent) /\ create(parent, "x", ModeFile, FALSE)

DirectMkdir ==
    /\ Serve
    /\ \E parent \in Inos : Allocated(parent) /\ mkdir(parent, "d", ModeTree, FALSE)

DirectRename ==
    /\ Serve
    /\ \E parent \in Inos, name \in {"x", "y"}, newparent \in Inos, newname \in {"x", "y"} :
          /\ Allocated(parent) /\ Allocated(newparent)
          /\ rename(parent, name, newparent, newname, FALSE)

\* opendir put to the handler for any inode handed out, a file's included
DirectOpendir(faults) ==
    /\ Serve
    /\ \E ino \in Inos, gitfail \in faults, iofail \in faults :
          /\ Allocated(ino)
          /\ ~(gitfail /\ iofail)
          /\ opendir(ino, gitfail, iofail, {})

\* readdir put to the handler for any inode handed out, from offset 0
DirectReaddir ==
    /\ Serve
    /\ \E ino \in Inos :
          /\ Allocated(ino)
          /\ \E ord \in IF Registered(ino) /\ IsListed(inomap.inner[ino])
                         THEN Orders(DOMAIN Unwrap(inomap.inner[ino].u.children))
                         ELSE {<<>>} :
                 readdir(ino, 0, 2, ord)

\* open, read, write and flush put to the handlers for any inode handed
\* out, a directory's included, with no open held
DirectOpen ==
    /\ Serve
    /\ \E ino \in Inos : Allocated(ino) /\ open(ino, O_RDONLY, FALSE, "none")

DirectRead ==
    /\ Serve
    /\ \E ino \in Inos : Allocated(ino) /\ read(ino, 0, 1, FALSE, FALSE)

DirectWrite ==
    /\ Serve
    /\ \E ino \in Inos : Allocated(ino) /\ write(ino, 0, <<7>>, FALSE)

DirectFlush ==
    /\ Serve
    /\ \E ino \in Inos : Allocated(ino) /\ flush(ino)

\* unlink put to the handler for any parent, for a name it removed before
\* too
DirectUnlink ==
    /\ Serve
    /\ \E parent \in Inos : Allocated(parent) /\ unlink(parent, "a", FALSE)

NextDirect ==
    \/ DirectLookup
    \/ DirectCreate
    \/ DirectMkdir
    \/ DirectRename

SpecDirect == Init /\ [][NextDirect]_vars

(* SpecMisuse: requests on the wrong kind of entry, on inodes that are not  *)
(* registered any more and on names that are not there, put to the handlers *)
(* as a test caller would.                                                  *)

NextMisuse ==
    \/ DirectLookup
    \/ DirectOpendir(NoFault)
    \/ DirectReaddir
    \/ DirectOpen
    \/ DirectRead
    \/ DirectWrite
    \/ DirectFlush
    \/ DirectUnlink
    \/ Getattr
    \/ Setattr({None}, {None})
    \/ Release

SpecMisuse == Init /\ [][NextMisuse]_vars

(* SpecReaddir: directory listings.  The kernel looks names up, opens and   *)
(* reads directories, and creates files while it reads.                     *)

NextReaddir ==
    \/ Lookup({"y"}, NoFault)
    \/ Opendir(NoFault)
    \/ Readdir({1, 2})
    \/ Create({"x"}, NoFault)

SpecReaddir == Init /\ [][NextReaddir]_vars

(* SpecUnlink: the life of a new file.  The kernel looks the name up,       *)
(* creates the file, writes it, releases it and unlinks it.                 *)

NextUnlink ==
    \/ Lookup({"x"}, NoFault)
    \/ Create({"x"}, NoFault)
    \/ Write({0}, {<<7>>}, NoFault)
    \/ Release
    \/ Unlink(AnyFault)

SpecUnlink == Init /\ [][NextUnlink]_vars

(* SpecAttr: attributes and names.  The kernel looks names up, asks for     *)
(* and sets attributes (chmod, truncate), removes and renames.              *)

NextAttr ==
    \/ Lookup({"y"}, NoFault)
    \/ Getattr
    \/ Setattr({None, Some(ModeTree)}, {None, Some(0)})
    \/ Unlink(NoFault)
    \/ Rmdir(NoFault)
    \/ Rename({"y"}, NoFault)

SpecAttr == Init /\ [][NextAttr]_vars

(* SpecRead: reads of committed files.  The kernel looks files up, opens    *)
(* them read-only, reads any range inside them and releases them.           *)

NextRead ==
    \/ Lookup({"a", "b"}, NoFault)
    \/ Open({O_RDONLY}, {"none"})
    \/ Read({0, 1, 2}, {0, 1, 2}, NoFault)
    \/ Release

SpecRead == Init /\ [][NextRead]_vars

(* SpecListing: first listings.  The underlying directory holds, at mount   *)
(* time, subdirectories and files that Git does not have; the kernel looks  *)
(* names up, opens directories and makes directories.                       *)

InitListing ==
    /\ inomap = InoMapAdd(InoMapNew, root_entry)
    /\ underlying_dir \in InitDirs \cup
          { [tree |-> (<<>> :> DirNode(ModeDir)) @@ (<<"s">> :> DirNode(ModeDir))
                      @@ (<<"s", "c">> :> FileNode(1, ModeFile))
                      @@ (<<"s", "g">> :> DirNode(ModeDir)),
             files |-> (1 :> <<8>>), next_fid |-> 2] }
    /\ opens = [i \in 1..MaxIno |-> [ro |-> 0, wr |-> 0]]
    /\ reply = ReplyOk(Request("init", 0, "", 0, ""))
    /\ panicked = FALSE
    /\ steps = 0
    /\ dirstream = NoStream
    /\ removed = {}

NextListing ==
    \/ Lookup({"y"}, NoFault)
    \/ Opendir(NoFault)
    \/ Mkdir({"d"}, NoFault)

SpecListing == InitListing /\ [][NextListing]_vars

(* SpecFaults: failing calls.  As SpecListing, but the listing of the       *)
(* underlying directory or the reading of the Git tree may fail, opendir is *)
(* put to files too, and files are opened for writing while the creation of *)
(* the underlying file or the writing of the blob into it may fail.         *)

NextFaults ==
    \/ Lookup({"y"}, AnyFault)
    \/ DirectOpendir(AnyFault)
    \/ Mkdir({"d"}, NoFault)
    \/ Open({O_RDWR}, {"none", "open", "write"})

SpecFaults == InitListing /\ [][NextFaults]_vars

(* SpecSetattr: attributes of open files.  The kernel looks files up, opens *)
(* them for writing, sets their mode and size, reads them and releases      *)
(* them.                                                                    *)

NextSetattr ==
    \/ Lookup({"a"}, NoFault)
    \/ Open({O_RDWR}, {"none"})
    \/ Setattr({None, Some(S_IFREG + 384)}, {None, Some(0)})
    \/ Read({0, 1}, {1}, NoFault)
    \/ Release

SpecSetattr == Init /\ [][NextSetattr]_vars

----------------------------------------------------------------------------
(* The claims.                                                              *)

\* registered inodes of one kind
DirtyFiles == {i \in DOMAIN inomap.inner : inomap.inner[i].u.kind = "DirtyFile"}

ListedDirs == {i \in DOMAIN inomap.inner : IsListed(inomap.inner[i])}

ChildrenOf(i) == Unwrap(inomap.inner[i].u.children)

\* C1: every inode with an outstanding successful write-intent open (an open
\* with non-read-only flags, or a create, not yet released) is a DirtyFile
\* with refcnt > 0 and its host handle present.
C1_WriterHoldsHandle ==
    \A i \in Inos :
        opens[i].wr > 0 =>
            /\ i \in DirtyFiles
            /\ inomap.inner[i].u.refcnt > 0
            /\ inomap.inner[i].u.file # None

\* C2: for every DirtyFile in the registry the host handle is absent if and
\* only if refcnt is 0.
C2_HandleIffRefcnt ==
    \A i \in DirtyFiles :
        (inomap.inner[i].u.file = None) <=> (inomap.inner[i].u.refcnt = 0)

\* C3: for every DirtyFile, refcnt is the number of kernel opens of the inode
\* that were answered with success and are not yet released.
C3_RefcntCountsOpens ==
    \A i \in DirtyFiles : inomap.inner[i].u.refcnt = opens[i].ro + opens[i].wr

\* the step lists the GitTree directory dno for the first time
FirstListing(dno) ==
    /\ dno \in DOMAIN inomap.inner
    /\ inomap.inner[dno].u.kind = "GitTree"
    /\ inomap.inner[dno].u.children = None
    /\ dno \in DOMAIN inomap'.inner
    /\ inomap'.inner[dno].u.children # None

\* the entry of Git tree oid that the listing shows under name n
GitEntry(oid, n) == CHOOSE te \in GitTrees[oid] : te.name = n

\* the names that are both in the Git tree of dno and in the underlying
\* directory at the path of dno
Colliding(dno) ==
    {n \in Names :
        /\ \E te \in GitTrees[inomap.inner[dno].u.oid] :
              te.name = n /\ te.kind \in {"Blob", "Tree"}
        /\ prefix(inomap, dno) # None
        /\ (Unwrap(prefix(inomap, dno)) \o <<n>>) \in DOMAIN underlying_dir.tree}

\* the entry cached under name n of directory dno after the step
ListedChild(dno, n) == inomap'.inner[Unwrap(inomap'.inner[dno].u.children)[n]]

C5_ChildrenAgree ==
    \A d \in ListedDirs :
        \A n \in DOMAIN ChildrenOf(d) :
            LET c == ChildrenOf(d)[n]
            IN  /\ c \in DOMAIN inomap.inner
                /\ inomap.inner[c].parent = d
                /\ inomap.inner[c].name = n

\* C6: every non-root entry has a registered parent that is a directory
\* whose cached children map holds the entry's name -> the entry's inode.
C6_ParentHoldsEntry ==
    \A i \in DOMAIN inomap.inner \ {ROOT} :
        LET e == inomap.inner[i]
        IN  /\ e.parent \in DOMAIN inomap.inner
            /\ IsListed(inomap.inner[e.parent])
            /\ e.name \in DOMAIN ChildrenOf(e.parent)
            /\ ChildrenOf(e.parent)[e.name] = i

\* C7: for every DirtyFile or DirtyDir the path computed by prefix names a
\* file or directory that exists in the underlying directory.
C7_DirtyPathExists ==
    \A i \in DOMAIN inomap.inner :
        inomap.inner[i].u.kind \in {"DirtyFile", "DirtyDir"} =>
            /\ prefix(inomap, i) # None
            /\ Unwrap(prefix(inomap, i)) \in DOMAIN underlying_dir.tree

\* mkdir(1, "d") has just succeeded and create(1, "x") was the request
\* before it: x holds the inode allocated right before d and is as created
CreatedThenMade ==
    /\ reply.rq = Request("mkdir", ROOT, "d", 0, "")
    /\ reply.sent = 1 /\ reply.errno = ""
    /\ LET d == reply.attr.ino
           x == d - 1
       IN  /\ x \in DOMAIN inomap.inner /\ d \in DOMAIN inomap.inner
           /\ inomap.inner[x] = Entry("x", ROOT, ModeFile, 0,
                                      inomap.inner[x].u)
           /\ inomap.inner[x].u.kind = "DirtyFile"
           /\ inomap.inner[x].u.refcnt = 1
           /\ inomap.inner[d] = Entry("d", ROOT, ModeTree, 0, DirtyDir(None))
           /\ IsListed(inomap.inner[ROOT])
           /\ "x" \in DOMAIN ChildrenOf(ROOT) /\ ChildrenOf(ROOT)["x"] = x
           /\ "d" \in DOMAIN ChildrenOf(ROOT) /\ ChildrenOf(ROOT)["d"] = d

\* what lookup(parent, name) would answer in the state after the step
LookupAfter(parent, name) ==
    IF parent \notin DOMAIN inomap'.inner \/ IsFile(inomap'.inner[parent]) THEN {0}
    ELSE IF inomap'.inner[parent].u.children # None
    THEN {LookupChild(reply'.rq, inomap', parent, name).attr.ino}
    ELSE {IF out.res = "Ok"
          THEN LookupChild(reply'.rq, out.inomap, parent, name).attr.ino ELSE 0 :
          out \in do_opendir(inomap', underlying_dir', parent, FALSE, FALSE, {})}

\* C8: after create(1,"x"), mkdir(1,"d"), the request rename(1,"x",d,"y")
\* replies success, the underlying directory holds d/y and no x, and a
\* lookup(d,"y") that follows answers with the inode create gave to x.
C8_RenameIntoNewDir ==
    [][(/\ CreatedThenMade
        /\ reply'.rq = Request("rename", ROOT, "x", reply.attr.ino, "y"))
       => /\ ~panicked'
          /\ reply'.sent = 1 /\ reply'.errno = ""
          /\ <<"d", "y">> \in DOMAIN underlying_dir'.tree
          /\ <<"x">> \notin DOMAIN underlying_dir'.tree
          /\ LookupAfter(reply.attr.ino, "y") = {reply.attr.ino - 1}]_vars

\* C9: every handler sends exactly one reply on every path through its body.
C9_ExactlyOneReply == reply.sent = 1

\* C10: under requests the kernel can legally deliver and any failure of the
\* underlying directory, no handler reaches unreachable!() or a failed
\* unwrap().
C10_NoFatalFault == ~panicked

\* the request just answered: op on inode ino, answered with success
Succeeded(r, op, ino) ==
    r.rq.op = op /\ r.rq.ino = ino /\ r.sent = 1 /\ r.errno = ""

\* the underlying directory d holds a regular file at path p
HasFile(d, p) == p \in DOMAIN d.tree /\ d.tree[p].type = "file"

\* the bytes of the regular file at path p of d
BytesAt(d, p) == d.files[d.tree[p].fid]

\* C11: a write-intent open of a GitBlob that succeeds leaves a DirtyFile
\* with refcnt 1 and its handle present over an underlying file, at the
\* entry's prefix path, holding the blob's bytes; a write changes that file
\* only at the positions it overwrites; a release leaves the entry a
\* DirtyFile and the file's bytes as they were.  So after open, writes and
\* release the file holds the blob's content except where overwritten.
C11_PromotionKeepsContent ==
    [][\A i \in DOMAIN inomap.inner :
          LET e    == inomap.inner[i]
              path == Unwrap(prefix(inomap, i))
          IN  /\ (/\ e.u.kind = "GitBlob"
                  /\ Succeeded(reply', "open", i)
                  /\ ~IsReadOnlyFlags(reply'.rq.ino2))
                 => /\ inomap'.inner[i].u.kind = "DirtyFile"
                    /\ inomap'.inner[i].u.refcnt = 1
                    /\ inomap'.inner[i].u.file # None
                    /\ prefix(inomap', i) = prefix(inomap, i)
                    /\ HasFile(underlying_dir', path)
                    /\ BytesAt(underlying_dir', path) = GitBlobs[e.u.oid]
              /\ (/\ e.u.kind = "DirtyFile"
                  /\ Succeeded(reply', "write", i))
                 => LET old == BytesAt(underlying_dir, path)
                        new == BytesAt(underlying_dir', path)
                        off == reply'.rq.ino2
                    IN  /\ HasFile(underlying_dir', path)
                        /\ Len(new) = Max(Len(old), off + reply'.n)
                        /\ \A k \in 1..Len(old) :
                              (k <= off \/ k > off + reply'.n) => new[k] = old[k]
              /\ (/\ e.u.kind = "DirtyFile"
                  /\ Succeeded(reply', "release", i))
                 => /\ inomap'.inner[i].u.kind = "DirtyFile"
                    /\ HasFile(underlying_dir', path)
                    /\ BytesAt(underlying_dir', path) = BytesAt(underlying_dir, path)]_vars

\* C11 witness: the blob b inside the Git subdirectory s was opened for
\* writing, written once and released; s/b holds the blob's bytes but for
\* the byte written, and the entry is a closed DirtyFile
C11_Witness ==
    /\ reply.rq.op = "release" /\ reply.errno = ""
    /\ \E i \in DOMAIN inomap.inner :
          /\ reply.rq.ino = i
          /\ inomap.inner[i].name = "b"
          /\ inomap.inner[i].u = DirtyFile(0, None)
          /\ prefix(inomap, i) = Some(<<"s", "b">>)
          /\ HasFile(underlying_dir, <<"s", "b">>)
          /\ BytesAt(underlying_dir, <<"s", "b">>) \in {<<7, 4>>, <<3, 7>>}
          /\ opens[i] = [ro |-> 0, wr |-> 0]

\* C12: a read(ino, off, size) of a GitBlob with off + size within the blob
\* replies exactly the blob's bytes in [off, off + size) and leaves the
\* registry and the underlying directory unchanged.
C12_ReadReturnsBlobRange ==
    [][\A i \in DOMAIN inomap.inner :
          LET e    == inomap.inner[i]
              off  == reply'.rq.ino2
              size == reply'.rq.size
          IN  (/\ e.u.kind = "GitBlob"
               /\ reply'.rq.op = "read" /\ reply'.rq.ino = i
               /\ off + size <= Len(GitBlobs[e.u.oid]))
              => /\ reply'.sent = 1 /\ reply'.errno = ""
                 /\ reply'.data = [k \in 1..size |-> GitBlobs[e.u.oid][off + k]]
                 /\ inomap' = inomap
                 /\ underlying_dir' = underlying_dir]_vars

\* C12 witness: the second byte of a two-byte blob has just been read
C12_Witness ==
    /\ reply.rq.op = "read" /\ reply.rq.ino2 = 1 /\ reply.rq.size = 1
    /\ reply.rq.ino \in DOMAIN inomap.inner
    /\ inomap.inner[reply.rq.ino].u.kind = "GitBlob"
    /\ Len(GitBlobs[inomap.inner[reply.rq.ino].u.oid]) = 2
    /\ reply.data = <<GitBlobs[inomap.inner[reply.rq.ino].u.oid][2]>>

\* C13: readdir called from offset 0 and then with the last cookie, until a
\* reply is empty, over a children map that was not changed meanwhile, gives
\* every key of the map exactly once and nothing else; the cookie given with
\* the entry at iteration position p (0-based) is p + 1.
C13_ReaddirEnumeratesChildren ==
    /\ (/\ dirstream.done
        /\ dirstream.ino \in DOMAIN inomap.inner
        /\ inomap.inner[dirstream.ino].u.children = dirstream.children)
       => LET keys == DOMAIN Unwrap(dirstream.children)
          IN  /\ {dirstream.names[k] : k \in DOMAIN dirstream.names} = keys
              /\ Len(dirstream.names) = Cardinality(keys)
    /\ (reply.rq.op = "readdir" /\ reply.sent = 1 /\ reply.errno = "")
       => \A k \in DOMAIN reply.entries :
             /\ reply.entries[k].name = dirstream.order[reply.rq.ino2 + k]
             /\ reply.entries[k].cookie = (reply.rq.ino2 + k - 1) + 1

\* C13 witness: a directory of two children was read to its end in three
\* calls, the first two answered with one entry each
C13_Witness ==
    /\ reply.rq.op = "readdir" /\ reply.entries = <<>>
    /\ dirstream.calls = 3
    /\ dirstream.done
    /\ dirstream.ino \in DOMAIN inomap.inner
    /\ inomap.inner[dirstream.ino].u.children = dirstream.children
    /\ Len(dirstream.names) = 2
    /\ dirstream.cookie = 2

\* C14: an unlink(1, name) answered with success removes the file of a
\* DirtyFile from the underlying directory, and from then on every
\* lookup(1, name) is answered ENOENT until the name is created again.
C14_UnlinkedStaysGone ==
    [][/\ \A n \in Names :
             (/\ KPresent(ROOT, n)
              /\ inomap.inner[KChild(ROOT, n)].u.kind = "DirtyFile"
              /\ reply'.rq = Request("unlink", ROOT, n, 0, "")
              /\ reply'.sent = 1 /\ reply'.errno = "")
             => /\ <<n>> \in DOMAIN underlying_dir.tree
                /\ <<n>> \notin DOMAIN underlying_dir'.tree
       /\ (/\ reply'.rq.op = "lookup" /\ reply'.rq.ino = ROOT
           /\ <<ROOT, reply'.rq.name>> \in removed)
          => /\ reply'.sent = 1
             /\ reply'.errno = ENOENT]_vars

\* C14 witness: the file x was created, written, released and unlinked, and
\* the lookup of x that followed was answered ENOENT
C14_Witness ==
    /\ reply.rq = Request("lookup", ROOT, "x", 0, "")
    /\ reply.errno = ENOENT
    /\ <<ROOT, "x">> \in removed
    /\ <<"x">> \notin DOMAIN underlying_dir.tree
    /\ \E fid \in DOMAIN underlying_dir.files : underlying_dir.files[fid] = <<7>>
    /\ \A i \in Inos : opens[i] = [ro |-> 0, wr |-> 0]

\* C15: no two distinct entries of the registry have the same parent and
\* the same name.
C15_SiblingNamesDiffer ==
    \A i, j \in DOMAIN inomap.inner :
        (/\ inomap.inner[i].parent = inomap.inner[j].parent
         /\ inomap.inner[i].name = inomap.inner[j].name)
        => i = j

\* C16: every registered inode number is below the registry's counter; the
\* counter never decreases; the numbers a step registers are the counter's
\* old value and the numbers that follow it, so that the numbers add returns
\* increase strictly and the number of a removed entry (which is below the
\* counter) is never given to an entry again.
C16_InodesNeverReused ==
    /\ [](\A i \in DOMAIN inomap.inner : i < inomap.next_ino)
    /\ [][/\ inomap'.next_ino >= inomap.next_ino
          /\ \A i \in Inos :
                (i < inomap.next_ino /\ i \notin DOMAIN inomap.inner)
                => i \notin DOMAIN inomap'.inner
          /\ \A i \in DOMAIN inomap'.inner \ DOMAIN inomap.inner :
                i >= inomap.next_ino /\ i < inomap'.next_ino]_vars

\* C16 witness: a create has just been given the counter's number while the
\* number of an entry removed before it stays without an entry
C16_Witness ==
    /\ reply.rq.op = "create" /\ reply.sent = 1 /\ reply.errno = ""
    /\ reply.attr.ino = inomap.next_ino - 1
    /\ reply.attr.ino \in DOMAIN inomap.inner
    /\ \E i \in Inos : i < reply.attr.ino /\ i \notin DOMAIN inomap.inner

\* C17: inode 1 is registered, is a GitTree, and its parent is 1; it keeps
\* its (empty) name.
C17_RootStays ==
    /\ ROOT \in DOMAIN inomap.inner
    /\ inomap.inner[ROOT].u.kind = "GitTree"
    /\ inomap.inner[ROOT].u.oid = RootTree
    /\ inomap.inner[ROOT].parent = ROOT
    /\ inomap.inner[ROOT].name = ""

\* C17 witness: the root was listed and given a new mode by setattr, and an
\* entry was removed from it
C17_Witness ==
    /\ IsListed(inomap.inner[ROOT])
    /\ inomap.inner[ROOT].perm = ModeTree
    /\ <<ROOT, "a">> \in removed \/ <<ROOT, "s">> \in removed
    /\ reply.sent = 1 /\ reply.errno = ""
    /\ reply.rq.op \in {"unlink", "rmdir", "rename", "setattr"}

\* C18: an opendir answered with success leaves the entry a directory with
\* its children cached; an opendir(ino) or a lookup(ino, name) on a
\* directory whose children are cached allocates no inode, registers no
\* entry and leaves the children map as it was (the registry does not
\* change at all), whatever the underlying directory holds by then.
C18_ListingIsIdempotent ==
    [][\A ino \in Inos :
          /\ Succeeded(reply', "opendir", ino)
             => /\ ino \in DOMAIN inomap'.inner
                /\ IsListed(inomap'.inner[ino])
          /\ (/\ reply'.rq.op \in {"opendir", "lookup"} /\ reply'.rq.ino = ino
              /\ ino \in DOMAIN inomap.inner
              /\ IsListed(inomap.inner[ino]))
             => /\ inomap' = inomap
                /\ reply'.sent = 1]_vars

\* C18 witness: the root was opened again after it had been listed and the
\* file x had been created in the underlying directory
C18_Witness ==
    /\ Succeeded(reply, "opendir", ROOT)
    /\ IsListed(inomap.inner[ROOT])
    /\ HasFile(underlying_dir, <<"x">>)
    /\ DOMAIN ChildrenOf(ROOT) = {"a", "s", "x"}

\* C19: the size field of every GitBlob entry is the byte length of its blob.
C19_BlobSizeIsLength ==
    \A i \in DOMAIN inomap.inner :
        inomap.inner[i].u.kind = "GitBlob"
        => inomap.inner[i].size = Len(GitBlobs[inomap.inner[i].u.oid])

\* C20: for every inode that stays registered, prefix gives the same path
\* after every operation that is not a rename; in particular it does not
\* become absent after an unlink or rmdir of an ancestor or a sibling.
C20_PrefixIsStable ==
    [][reply'.rq.op # "rename"
       => \A i \in DOMAIN inomap.inner \cap DOMAIN inomap'.inner :
             prefix(inomap', i) = prefix(inomap, i)]_vars

\* C21: an open with read-only flags, a read within the blob, a flush or a
\* release of an entry that is a GitBlob is answered with success and leaves
\* the registry (so the entry's kind and the inode counter) and the
\* underlying directory as they were.
C21_ReadOnlyOpenChangesNothing ==
    [][\A i \in DOMAIN inomap.inner :
          (/\ inomap.inner[i].u.kind = "GitBlob"
           /\ reply'.rq.ino = i
           /\ \/ reply'.rq.op = "open" /\ reply'.rq.ino2 = O_RDONLY
              \/ reply'.rq.op \in {"read", "flush", "release"})
          => /\ reply'.sent = 1 /\ reply'.errno = ""
             /\ inomap' = inomap
             /\ underlying_dir' = underlying_dir]_vars

\* C21 witness: the blob b of the Git subdirectory s, opened read-only, has
\* just been released; it is a GitBlob still and nothing is at s/b
C21_Witness ==
    /\ reply.rq.op = "release" /\ reply.sent = 1 /\ reply.errno = ""
    /\ reply.rq.ino \in DOMAIN inomap.inner
    /\ inomap.inner[reply.rq.ino] = Entry("b", 3, ModeFile, 2, GitBlob("B2"))
    /\ opens[reply.rq.ino] = [ro |-> 0, wr |-> 0]
    /\ <<"s", "b">> \notin DOMAIN underlying_dir.tree
    /\ underlying_dir \in InitDirs

\* C22: when a GitTree directory is listed for the first time, the keys of
\* its children map are exactly the names of the blob and tree entries of
\* its Git tree together with the names of the regular files and
\* subdirectories of the underlying directory at the directory's prefix; a
\* name only in Git is cached as the GitBlob or the unlisted GitTree of its
\* Git entry, a name only in the underlying directory as a closed DirtyFile
\* (refcnt 0, no handle) or an unlisted DirtyDir.
C22_ListingIsTheUnion ==
    [][\A dno \in Inos :
          FirstListing(dno) =>
              LET path    == Unwrap(prefix(inomap, dno))
                  git     == {te \in GitTrees[inomap.inner[dno].u.oid] :
                                 te.kind \in {"Blob", "Tree"}}
                  gitNames == {te.name : te \in git}
                  below   == {q \in DOMAIN underlying_dir.tree :
                                 /\ Len(q) = Len(path) + 1
                                 /\ SubSeq(q, 1, Len(path)) = path
                                 /\ underlying_dir.tree[q].type \in {"file", "dir"}}
                  onDisk  == {q[Len(q)] : q \in below}
                  kids    == Unwrap(inomap'.inner[dno].u.children)
              IN  /\ DOMAIN kids = gitNames \cup onDisk
                  /\ \A n \in gitNames \ onDisk :
                        \E te \in git :
                           /\ te.name = n
                           /\ ListedChild(dno, n).u =
                                 IF te.kind = "Blob" THEN GitBlob(te.id)
                                 ELSE GitTree(te.id, None)
                  /\ \A n \in onDisk \ gitNames :
                        ListedChild(dno, n).u =
                           IF underlying_dir.tree[path \o <<n>>].type = "file"
                           THEN DirtyFile(0, None)
                           ELSE DirtyDir(None)]_vars

\* C22 witness: the Git tree s has just been listed over an underlying
\* directory s that holds the file c and the subdirectory g; its children
\* are the Git blob b, the closed DirtyFile c and the unlisted DirtyDir g,
\* and the submodule link m is not among them
C22_Witness ==
    /\ reply.rq.op = "lookup" /\ reply.rq.ino = 3 /\ steps = 2
    /\ 3 \in DOMAIN inomap.inner /\ IsListed(inomap.inner[3])
    /\ DOMAIN ChildrenOf(3) = {"b", "c", "g"}
    /\ inomap.inner[ChildrenOf(3)["b"]].u = GitBlob("B2")
    /\ inomap.inner[ChildrenOf(3)["c"]].u = DirtyFile(0, None)
    /\ inomap.inner[ChildrenOf(3)["g"]].u = DirtyDir(None)

\* C23: lookup, opendir and readdir on a registered file (GitBlob or
\* DirtyFile) reply ENOTDIR; open, read, write and flush on a registered
\* directory (GitTree or DirtyDir) reply EISDIR; lookup (by its parent),
\* getattr, setattr, open, read, write, flush and release on an inode that
\* is not registered reply ENOENT; each of these leaves the registry and the
\* underlying directory unchanged.  A lookup in a registered directory of a
\* name that is not among its children (once they are listed) replies
\* ENOENT.
C23_WrongKindOrUnknown ==
    [][LET rq       == reply'.rq
           known    == rq.ino \in DOMAIN inomap.inner
           same     == inomap' = inomap /\ underlying_dir' = underlying_dir
           says(e)  == reply'.sent = 1 /\ reply'.errno = e
           nochild  == /\ rq.ino \in DOMAIN inomap'.inner
                       /\ IsListed(inomap'.inner[rq.ino])
                       /\ rq.name \notin DOMAIN Unwrap(inomap'.inner[rq.ino].u.children)
       IN  /\ (/\ rq.op \in {"lookup", "opendir", "readdir"}
               /\ known /\ IsFile(inomap.inner[rq.ino]))
              => says(ENOTDIR) /\ same
           /\ (/\ rq.op \in {"open", "read", "write", "flush"}
               /\ known /\ IsDirectory(inomap.inner[rq.ino]))
              => says(EISDIR) /\ same
           /\ (/\ rq.op \in {"lookup", "getattr", "setattr", "open", "read", "write",
                             "flush", "release"}
               /\ ~known)
              => says(ENOENT) /\ same
           /\ (/\ rq.op = "lookup"
               /\ known /\ IsDirectory(inomap.inner[rq.ino])
               /\ nochild)
              => says(ENOENT)]_vars

\* C23 witness: a committed file was opened read-only and then unlinked; the
\* release of the open, on the inode that is not registered any more, has
\* just been answered ENOENT
C23_Witness ==
    /\ reply.rq.op = "release" /\ reply.sent = 1 /\ reply.errno = ENOENT
    /\ reply.rq.ino \notin DOMAIN inomap.inner
    /\ reply.rq.ino < inomap.next_ino
    /\ opens[reply.rq.ino] = [ro |-> 0, wr |-> 0]
    /\ IsListed(inomap.inner[ROOT])

\* C24: an open of a DirtyFile whose handle is present is answered with
\* success, adds exactly one to refcnt and keeps the same handle.
C24_SharedHandleOpen ==
    [][\A i \in DOMAIN inomap.inner :
          (/\ inomap.inner[i].u.kind = "DirtyFile"
           /\ inomap.inner[i].u.file # None
           /\ reply'.rq.op = "open" /\ reply'.rq.ino = i)
          => /\ reply'.sent = 1 /\ reply'.errno = ""
             /\ inomap'.inner[i].u.refcnt = inomap.inner[i].u.refcnt + 1
             /\ inomap'.inner[i].u.file = inomap.inner[i].u.file]_vars

\* C25: refcnt of a DirtyFile is never negative, and a release of a
\* DirtyFile is answered with success and takes one from refcnt: when the
\* result is zero or less refcnt becomes 0 and the handle is dropped (so a
\* release at refcnt 0 leaves refcnt 0 and no handle), and while the result
\* is positive the handle is kept.
C25_ReleaseClampsAtZero ==
    /\ [](\A i \in DirtyFiles : inomap.inner[i].u.refcnt >= 0)
    /\ [][\A i \in DOMAIN inomap.inner :
             (/\ inomap.inner[i].u.kind = "DirtyFile"
              /\ reply'.rq.op = "release" /\ reply'.rq.ino = i)
             => /\ reply'.sent = 1 /\ reply'.errno = ""
                /\ inomap'.inner[i].u.kind = "DirtyFile"
                /\ IF inomap.inner[i].u.refcnt - 1 <= 0
                   THEN /\ inomap'.inner[i].u.refcnt = 0
                        /\ inomap'.inner[i].u.file = None
                   ELSE /\ inomap'.inner[i].u.refcnt = inomap.inner[i].u.refcnt - 1
                        /\ inomap'.inner[i].u.file = inomap.inner[i].u.file
                        /\ inomap'.inner[i].u.file # None]_vars

\* C25 witness: a DirtyFile that had refcnt 2 has just been released; one
\* is left and the handle is still there
C25_Witness ==
    /\ reply.rq.op = "release" /\ reply.sent = 1 /\ reply.errno = ""
    /\ reply.rq.ino \in DOMAIN inomap.inner
    /\ inomap.inner[reply.rq.ino].u.kind = "DirtyFile"
    /\ inomap.inner[reply.rq.ino].u.refcnt = 1
    /\ inomap.inner[reply.rq.ino].u.file # None

\* C26: a write-intent open of a GitBlob that is not answered with success
\* (the creation of the underlying file, or the writing of the blob into it,
\* failed) is answered with the errno of the failure, EIO when it has none,
\* and leaves the entry as it was: a GitBlob with the same oid, name,
\* parent, size and perm.
C26_FailedPromotionKeepsBlob ==
    [][\A i \in DOMAIN inomap.inner :
          (/\ inomap.inner[i].u.kind = "GitBlob"
           /\ reply'.rq.op = "open" /\ reply'.rq.ino = i
           /\ ~IsReadOnlyFlags(reply'.rq.ino2)
           /\ ~(reply'.sent = 1 /\ reply'.errno = ""))
          => LET f == update_file(underlying_dir, Unwrap(prefix(inomap, i)),
                                  inomap.inner[i].perm, FALSE)
             IN  /\ reply'.sent = 1
                 /\ reply'.errno \in {EIO} \cup (IF f.ok THEN {} ELSE {f.err})
                 /\ i \in DOMAIN inomap'.inner
                 /\ inomap'.inner[i] = inomap.inner[i]]_vars

\* C26 witness: the write-intent open of the committed file a has just been
\* answered EIO after the underlying file was created and the writing of
\* the blob failed: a is a GitBlob still, over an empty underlying file
C26_Witness ==
    /\ reply.rq.op = "open" /\ reply.sent = 1 /\ reply.errno = EIO
    /\ reply.rq.ino2 = O_RDWR
    /\ reply.rq.ino \in DOMAIN inomap.inner
    /\ inomap.inner[reply.rq.ino] = Entry("a", ROOT, ModeFile, 2, GitBlob("B1"))
    /\ HasFile(underlying_dir, <<"a">>)
    /\ BytesAt(underlying_dir, <<"a">>) = <<>>

\* C27: in every step and for every inode registered before and after it, an
\* entry that is a DirtyFile is not a GitBlob afterwards, a file entry stays
\* a file entry and a directory entry stays a directory entry.
C27_KindsAreOneWay ==
    [][\A i \in DOMAIN inomap.inner \cap DOMAIN inomap'.inner :
          /\ inomap.inner[i].u.kind = "DirtyFile" => inomap'.inner[i].u.kind = "DirtyFile"
          /\ IsFile(inomap.inner[i]) = IsFile(inomap'.inner[i])
          /\ IsDirectory(inomap.inner[i]) = IsDirectory(inomap'.inner[i])]_vars

\* C27 witness: over an underlying directory that was empty at mount time
\* the committed file a, promoted by a write-intent open and closed since,
\* has just been opened read-only: it is a DirtyFile still
C27_Witness ==
    /\ reply.rq.op = "open" /\ reply.sent = 1 /\ reply.errno = ""
    /\ reply.rq.ino2 = O_RDONLY
    /\ reply.rq.ino \in DOMAIN inomap.inner
    /\ inomap.inner[reply.rq.ino].name = "a"
    /\ inomap.inner[reply.rq.ino].u.kind = "DirtyFile"
    /\ inomap.inner[reply.rq.ino].u.refcnt = 1
    /\ DOMAIN underlying_dir.tree = {<<>>, <<"a">>}
    /\ BytesAt(underlying_dir, <<"a">>) = GitBlobs["B1"]

\* C28: when an unlink or rmdir of a registered dirty child (DirtyFile or
\* DirtyDir) is answered with an error, the errno is that of the failed
\* removal in the underlying directory (EIO when it has none), the entry of
\* the child is registered unchanged under the next inode number, which is
\* greater than every number handed out before, the parent's children map
\* gives that number for the name, and the old number is not registered.
C28_FailedRemoveReinserts ==
    [][\A p \in DOMAIN inomap.inner :
          (/\ reply'.rq.op \in {"unlink", "rmdir"} /\ reply'.rq.ino = p
           /\ reply'.sent = 1 /\ reply'.errno # ""
           /\ IsListed(inomap.inner[p])
           /\ reply'.rq.name \in DOMAIN ChildrenOf(p)
           /\ ChildrenOf(p)[reply'.rq.name] \in DOMAIN inomap.inner
           /\ inomap.inner[ChildrenOf(p)[reply'.rq.name]].u.kind \in {"DirtyFile", "DirtyDir"})
          => LET c    == ChildrenOf(p)[reply'.rq.name]
                 n    == inomap.next_ino
                 path == Unwrap(prefix(inomap, c))
                 r    == IF inomap.inner[c].u.kind = "DirtyFile"
                         THEN remove_file(underlying_dir, path, FALSE)
                         ELSE remove_dir(underlying_dir, path, FALSE)
             IN  /\ reply'.errno \in {EIO} \cup (IF r.ok THEN {} ELSE {r.err})
                 /\ \A k \in DOMAIN inomap.inner : k < n
                 /\ inomap'.next_ino = n + 1
                 /\ n \in DOMAIN inomap'.inner
                 /\ inomap'.inner[n] = inomap.inner[c]
                 /\ c \notin DOMAIN inomap'.inner
                 /\ Unwrap(inomap'.inner[p].u.children)[reply'.rq.name] = n
                 /\ underlying_dir' = underlying_dir]_vars

\* C28 witness: the rmdir of a made directory that holds a file has just
\* been answered ENOTEMPTY; the directory is registered under the newest
\* inode number, which the root's children map gives for its name
C28_Witness ==
    /\ reply.rq.op = "rmdir" /\ reply.rq.ino = ROOT /\ reply.rq.name = "d"
    /\ reply.sent = 1 /\ reply.errno = ENOTEMPTY
    /\ ChildrenOf(ROOT)["d"] = inomap.next_ino - 1
    /\ inomap.inner[inomap.next_ino - 1].name = "d"
    /\ inomap.inner[inomap.next_ino - 1].u.kind = "DirtyDir"
    /\ IsDirAt(underlying_dir, <<"d">>)

\* C29: an unlink or rmdir, in a registered and listed directory, of a name
\* that is not a current child (the children map does not have it, or has
\* it for an inode that an earlier unlink or rmdir removed) is answered
\* ENOENT and leaves the registry and the underlying directory unchanged.
C29_RemoveOfMissingName ==
    [][\A p \in DOMAIN inomap.inner :
          (/\ reply'.rq.op \in {"unlink", "rmdir"} /\ reply'.rq.ino = p
           /\ IsListed(inomap.inner[p])
           /\ \/ reply'.rq.name \notin DOMAIN ChildrenOf(p)
              \/ ChildrenOf(p)[reply'.rq.name] \notin DOMAIN inomap.inner)
          => /\ reply'.sent = 1 /\ reply'.errno = ENOENT
             /\ inomap' = inomap
             /\ underlying_dir' = underlying_dir]_vars

\* C30: for every registered directory whose children are not cached yet:
\* when the listing of the underlying directory fails, do_opendir of a
\* GitTree succeeds with exactly the Git-derived children (the blob and
\* tree entries of its Git tree, as GitBlob and unlisted GitTree), and
\* do_opendir of a DirtyDir gives EIO with the registry as it was; when the
\* Git tree cannot be read, do_opendir of a GitTree gives ENOENT with the
\* registry as it was.  do_opendir of a file gives ENOTDIR.  And an opendir
\* request answered with an error leaves the registry unchanged: no inode
\* is allocated and the children stay un-cached.
C30_ListingFailures ==
    /\ [](\A d \in DOMAIN inomap.inner :
             LET e == inomap.inner[d]
             IN  /\ IsFile(e) =>
                       \A gf, iof \in BOOLEAN :
                           do_opendir(inomap, underlying_dir, d, gf, iof, {})
                               = {DirErr(inomap, ENOTDIR)}
                 /\ (e.u.kind = "DirtyDir" /\ e.u.children = None) =>
                       do_opendir(inomap, underlying_dir, d, FALSE, TRUE, {})
                           = {DirErr(inomap, EIO)}
                 /\ (e.u.kind = "GitTree" /\ e.u.children = None) =>
                       /\ \A iof \in BOOLEAN :
                             do_opendir(inomap, underlying_dir, d, TRUE, iof, {})
                                 = {DirErr(inomap, ENOENT)}
                       /\ \A out \in do_opendir(inomap, underlying_dir, d, FALSE, TRUE, {}) :
                             LET git  == {te \in GitTrees[e.u.oid] : te.kind \in {"Blob", "Tree"}}
                                 kids == Unwrap(out.inomap.inner[d].u.children)
                             IN  /\ out.res = "Ok"
                                 /\ DOMAIN kids = {te.name : te \in git}
                                 /\ \A te \in git :
                                       /\ kids[te.name] \notin DOMAIN inomap.inner
                                       /\ out.inomap.inner[kids[te.name]].u =
                                             IF te.kind = "Blob" THEN GitBlob(te.id)
                                             ELSE GitTree(te.id, None)
                                 /\ out.inomap.next_ino = inomap.next_ino + Cardinality(git))
    /\ [][(reply'.rq.op = "opendir" /\ reply'.errno # "")
             => /\ reply'.sent = 1
                /\ inomap' = inomap
                /\ underlying_dir' = underlying_dir
                /\ reply'.rq.ino \in DOMAIN inomap.inner
                      => reply'.errno =
                            IF IsFile(inomap.inner[reply'.rq.ino]) THEN ENOTDIR
                            ELSE IF inomap.inner[reply'.rq.ino].u.kind = "DirtyDir" THEN EIO
                            ELSE ENOENT]_vars

\* C30 witness: the Git tree s has just been opened while the listing of
\* the underlying directory s, which holds the file c and the subdirectory
\* g, failed: the children of s are the Git blob b and nothing else
C30_Witness ==
    /\ reply.rq.op = "opendir" /\ reply.rq.ino = 3
    /\ reply.sent = 1 /\ reply.errno = ""
    /\ 3 \in DOMAIN inomap.inner
    /\ inomap.inner[3].u.kind = "GitTree"
    /\ IsListed(inomap.inner[3])
    /\ DOMAIN ChildrenOf(3) = {"b"}
    /\ inomap.inner[ChildrenOf(3)["b"]].u = GitBlob("B2")
    /\ HasFile(underlying_dir, <<"s", "c">>)
    /\ IsDirAt(underlying_dir, <<"s", "g">>)

\* C31: a setattr of a registered inode is answered with success; it stores
\* the mode and the size that are present and keeps the other of the two;
\* the attributes of the reply show the stored size and mode; the entry's
\* kind, name, parent, refcnt and handle and the whole underlying directory
\* (so the content and length of every file) are as before.  A read of a
\* DirtyFile through its read-write handle returns the bytes the underlying
\* file holds at the offset, whatever size the entry carries.
C31_SetattrStoresOnly ==
    [][\A i \in DOMAIN inomap.inner :
          LET e  == inomap.inner[i]
              rq == reply'.rq
          IN  /\ (rq.op = "setattr" /\ rq.ino = i)
                 => /\ reply'.sent = 1 /\ reply'.errno = ""
                    /\ i \in DOMAIN inomap'.inner
                    /\ inomap'.inner[i].perm = (IF rq.ino2 = -1 THEN e.perm ELSE rq.ino2)
                    /\ inomap'.inner[i].size = (IF rq.size = -1 THEN e.size ELSE rq.size)
                    /\ reply'.attr.size = inomap'.inner[i].size
                    /\ reply'.attr.perm = inomap'.inner[i].perm % 65536
                    /\ reply'.attr.ino = i
                    /\ inomap'.inner[i].u = e.u
                    /\ inomap'.inner[i].name = e.name
                    /\ inomap'.inner[i].parent = e.parent
                    /\ \A k \in DOMAIN inomap.inner \ {i} :
                          k \in DOMAIN inomap'.inner /\ inomap'.inner[k] = inomap.inner[k]
                    /\ underlying_dir' = underlying_dir
              /\ (/\ rq.op = "read" /\ rq.ino = i
                  /\ e.u.kind = "DirtyFile" /\ e.u.file # None
                  /\ Unwrap(e.u.file).mode = "RW")
                 => /\ reply'.sent = 1 /\ reply'.errno = ""
                    /\ reply'.data = ReadAt(underlying_dir.files[Unwrap(e.u.file).fid],
                                            rq.ino2, rq.size)
                    /\ underlying_dir' = underlying_dir]_vars

\* C31 witness: the committed two-byte file a was opened for writing and its
\* size set to 0; a read of one byte at offset 0 has just returned the
\* blob's first byte, and the underlying file still holds both bytes
C31_Witness ==
    /\ reply.rq.op = "read" /\ reply.rq.ino2 = 0 /\ reply.rq.size = 1
    /\ reply.sent = 1 /\ reply.errno = ""
    /\ reply.data = <<GitBlobs["B1"][1]>>
    /\ reply.rq.ino \in DOMAIN inomap.inner
    /\ inomap.inner[reply.rq.ino].u.kind = "DirtyFile"
    /\ inomap.inner[reply.rq.ino].size = 0
    /\ BytesAt(underlying_dir, <<"a">>) = GitBlobs["B1"]

\* C32: a write on a DirtyFile with its handle that is answered with success
\* replies the length of the data, leaves the data in the underlying file at
\* the absolute offset (the bytes outside are as before, a gap reads as
\* zeros) and sets the entry's size to max(old size, offset + length); a
\* read of bytes the file holds, on a DirtyFile whose handle is open (the
\* one open_dirty_file, the promotion or create stored), returns those bytes.
C32_WriteThenRead ==
    [][\A i \in DOMAIN inomap.inner :
          LET e  == inomap.inner[i]
              rq == reply'.rq
          IN  (e.u.kind = "DirtyFile" /\ e.u.file # None /\ rq.ino = i)
              => LET fid == Unwrap(e.u.file).fid
                     old == underlying_dir.files[fid]
                 IN  /\ Succeeded(reply', "write", i)
                        => /\ \E data \in {<<7>>} :
                                 /\ reply'.n = Len(data)
                                 /\ underlying_dir'.files[fid] = WriteAt(old, rq.ino2, data)
                                 /\ ReadAt(underlying_dir'.files[fid], rq.ino2, Len(data)) = data
                           /\ i \in DOMAIN inomap'.inner
                           /\ inomap'.inner[i].size = Max(e.size, rq.ino2 + reply'.n)
                     /\ (rq.op = "read" /\ rq.ino2 + rq.size <= Len(old))
                        => /\ reply'.sent = 1 /\ reply'.errno = ""
                           /\ reply'.data = SubSeq(old, rq.ino2 + 1, rq.ino2 + rq.size)]_vars

\* C33: on a rename of the child c that name is mapped to in a listed parent,
\* into a registered new parent: when c is a GitBlob or GitTree the
\* underlying directory stays as it is and c stays registered with its kind;
\* when the rename is answered with success, c is registered with its kind
\* and the new name, the source directory's children are those it had
\* without the old name and the destination's children map the new name to
\* c; when c is a DirtyFile or DirtyDir and the rename is answered with an
\* errno, the registry is as before.
C33_RenameMovesTheEntry ==
    [][\A p \in DOMAIN inomap.inner, q \in DOMAIN inomap.inner :
          LET rq   == reply'.rq
              pent == inomap.inner[p]
          IN  (/\ rq.op = "rename" /\ rq.ino = p /\ rq.ino2 = q
               /\ IsListed(pent)
               /\ rq.name \in DOMAIN ChildrenOf(p)
               /\ ChildrenOf(p)[rq.name] \in DOMAIN inomap.inner)
              => LET c     == ChildrenOf(p)[rq.name]
                     cent  == inomap.inner[c]
                     git   == cent.u.kind \in {"GitBlob", "GitTree"}
                     ok    == reply'.sent = 1 /\ reply'.errno = ""
                     kept  == [n \in DOMAIN ChildrenOf(p) \ {rq.name} |-> ChildrenOf(p)[n]]
                     new   == inomap'.inner
                     kids(i) == Unwrap(new[i].u.children)
                 IN  /\ git => /\ underlying_dir' = underlying_dir
                               /\ c \in DOMAIN new
                               /\ new[c].u.kind = cent.u.kind
                     /\ ok => /\ c \in DOMAIN new
                              /\ new[c].u.kind = cent.u.kind
                              /\ new[c].name = rq.name2
                              /\ p \in DOMAIN new /\ q \in DOMAIN new
                              /\ IsListed(new[p]) /\ IsListed(new[q])
                              /\ rq.name2 \in DOMAIN kids(q) /\ kids(q)[rq.name2] = c
                              /\ IF p = q
                                 THEN /\ DOMAIN kids(p) = DOMAIN kept \cup {rq.name2}
                                      /\ \A n \in DOMAIN kept \ {rq.name2} : kids(p)[n] = kept[n]
                                 ELSE /\ kids(p) = kept
                                      /\ \A n \in DOMAIN ChildrenOf(q) \ {rq.name2} :
                                            n \in DOMAIN kids(q) /\ kids(q)[n] = ChildrenOf(q)[n]
                     /\ (~git /\ reply'.sent = 1 /\ reply'.errno # "")
                        => inomap' = inomap]_vars

\* C33 witness: the committed file a is registered under the name y in the
\* root, whose children no longer hold a, after a rename answered with
\* success; the underlying directory holds neither name
C33_Witness ==
    /\ Succeeded(reply, "rename", ROOT)
    /\ reply.rq.name = "a" /\ reply.rq.name2 = "y" /\ reply.rq.ino2 = ROOT
    /\ "y" \in DOMAIN ChildrenOf(ROOT) /\ "a" \notin DOMAIN ChildrenOf(ROOT)
    /\ ChildrenOf(ROOT)["y"] \in DOMAIN inomap.inner
    /\ inomap.inner[ChildrenOf(ROOT)["y"]].u.kind = "GitBlob"
    /\ inomap.inner[ChildrenOf(ROOT)["y"]].name = "y"
    /\ ~HasFile(underlying_dir, <<"a">>) /\ ~HasFile(underlying_dir, <<"y">>)

\* C34: the attribute record of a lookup, getattr, setattr, create or mkdir
\* answered with success carries the inode number under which the entry is
\* registered (the inode asked about, or the one the parent's children map
\* the name to), perm equal to the low 12 bits of that entry's stored mode,
\* and nlink 2 for a GitTree or DirtyDir and 1 for a GitBlob or DirtyFile.
C34_AttrOfEntry ==
    (/\ reply.sent = 1 /\ reply.errno = ""
     /\ reply.rq.op \in {"lookup", "getattr", "setattr", "create", "mkdir"})
    => LET i == reply.attr.ino
       IN  /\ i \in DOMAIN inomap.inner
           /\ reply.rq.op \in {"getattr", "setattr"} => i = reply.rq.ino
           /\ reply.rq.op \in {"lookup", "create", "mkdir"}
              => /\ reply.rq.ino \in DOMAIN inomap.inner
                 /\ IsListed(inomap.inner[reply.rq.ino])
                 /\ reply.rq.name \in DOMAIN ChildrenOf(reply.rq.ino)
                 /\ ChildrenOf(reply.rq.ino)[reply.rq.name] = i
           /\ reply.attr.perm = inomap.inner[i].perm % 4096
           /\ reply.attr.nlink =
                 (IF inomap.inner[i].u.kind \in {"GitTree", "DirtyDir"} THEN 2 ELSE 1)

\* C35: every entry of a readdir answered with success reports the kind of
\* the child it names: RegularFile when the child registered under the
\* yielded inode number is a GitBlob or DirtyFile, Directory when it is a
\* GitTree or DirtyDir.
C35_ReaddirKindIsTheChilds ==
    (reply.rq.op = "readdir" /\ reply.sent = 1 /\ reply.errno = "")
    => \A k \in DOMAIN reply.entries :
          LET c == reply.entries[k].ino
          IN  c \in DOMAIN inomap.inner
              => reply.entries[k].kind =
                    (IF inomap.inner[c].u.kind \in {"GitTree", "DirtyDir"}
                     THEN "Directory" ELSE "RegularFile")

====
